---------------------------- MODULE Spec2Model ----------------------------
(***************************************************************************)
(* A model of beam_service/app.py: the scene synthesis paths (sequential   *)
(* generate_styled_scenes and ParallelProcessor.parallel_generate_scenes), *)
(* the ModelCache, the StorageLifecycleManager and the duration formula.   *)
(*                                                                         *)
(* The module holds several specifications over one set of variables; each *)
(* one moves only the variables of its component and leaves the others at  *)
(* their initial value.                                                    *)
(*   SpecScenes       one job's scene generation, both paths               *)
(*   SpecCache        ModelCache, one caller at a time                     *)
(*   SpecCacheThreads ModelCache, statement by statement, several threads  *)
(*   SpecLifecycle    uploads, one-shot timers and the periodic sweep      *)
(*   SpecDuration     calculate_lyric_duration / optimized_calculate_...   *)
(***************************************************************************)
EXTENDS Integers, Sequences, FiniteSets, TLC

VARIABLES
    \* ---- scene generation (one job) ----
    entry,               \* "pipeline" (generate_optimized_video) or "task_queue" (generate_lyric_video_pro)
    parallel_processing, \* OptimizedVideoPipeline.config["parallel_processing"]
    lyrics,              \* data["lyrics"]: a sequence of lyric texts
    path,                \* "none", "seq" or "par": the generation path taken
    phase,               \* "start", "generating", "returned"
    scenes,              \* the list `scenes` of the running path
    previous_images,     \* the list `previous_images` of the running path
    seqI,                \* sequential path: 1-based index of the lyric being processed
    attempt,             \* sequential path: the loop variable `attempt` (0-based)
    seqRaised,           \* sequential path: the positions of the lyrics whose loop body raised
    task,                \* parallel path: per submitted future, its position and result
    cache,               \* ModelCache._cache: an OrderedDict, first = next eviction victim
    \* ---- ModelCache callers ----
    recency,             \* the keys in order of their last access through ModelCache, oldest first
    lastOp,              \* the last completed ModelCache call and what it evicted
    tpc,                 \* per thread: the statement of cache_texture / get_cached_texture it is at
    targ,                \* per thread: the key and texture of its current call
    keyError,            \* whether some ModelCache call has raised KeyError
    \* ---- duration functions ----
    lyric,               \* the lyric dict passed: its text and its optional "duration"
    bpm,                 \* the bpm passed
    called,              \* "none", or the duration function that has been called
    duration,            \* the value returned, as a fraction num/den of seconds
    \* ---- storage lifecycle ----
    now,                 \* the clock, in ticks
    cloudinary_available,\* StorageLifecycleManager.cloudinary_available
    storage,             \* remote storage: the resources, each with public_id and created_at
    pending_deletions,   \* StorageLifecycleManager.pending_deletions: one (asset_id, expiry) per asset_id
    timers,              \* the sleeping _delete_after_delay threads
    sweepDue,            \* when the cleanup_worker thread wakes next
    jobs,                \* the number of jobs run so far
    uploads,             \* per resource in remote storage: when and by which entry point it was uploaded
    deleted,             \* the public_ids some delete call has removed from remote storage
    outage,              \* whether some remote storage call has failed
    lastDelete,          \* the last delete_asset call: its arguments, result and effect
    \* ---- background synthesis ----
    bgInput,             \* generate_styled_background: the environment and the style it is called with
    bgPc,                \* "start", "fallback", "returned" or "raised"
    bgOutput,            \* the value returned
    \* ---- one job, from its payload to its result ----
    jobData,             \* the payload and configuration: entry point, fields present, lyric count
    jobPc,               \* "start", "styled", "scenes", "encoded", "uploaded", "returned", "failed"
    jobScenes,           \* len(scenes) after scene generation
    jobSteps,            \* the work done so far, in order: "scenes", "render", "encode", "upload", "schedule"
    jobFile,             \* the encoded output file: "none", "exists" or "removed"
    jobResult,           \* what the caller gets: the result dict or the exception raised
    jobWebhooks,         \* the completion webhooks posted
    \* ---- animation dispatch ----
    dInput,              \* the dispatch entry point called, the animation tag, and the style profile the tag comes from
    dPc,                 \* "start" or "done"
    dOutcome,            \* what the entry point did: a registry function applied, a fade applied, or an exception
    \* ---- rendering the scenes of one job ----
    rInput,              \* the style profile of the job and the duration of each scene
    rPc,                 \* "background", "text", "rendered" or "raised"
    rBg,                 \* the background clip of the scene being rendered
    rClips,              \* the composite clips made so far, one per rendered scene
    \* ---- the cleanup_worker thread ----
    swPc,                \* "sleeping", "cleaning" or "stopped"
    swSlept,             \* how long the worker has slept since its last cycle, in ticks of 300 s
    swErrors,            \* the errors raised during the last cycle
    swCycles,            \* the number of cycles run, modulo SweepCycleWrap
    \* ---- sampling a motion function ----
    mClip,               \* the animated clip: the motion function applied, its duration and intensity
    mSamples,            \* the samples taken so far, in the order taken: the time and the transform returned
    \* ---- generate_signed_url ----
    suInput,             \* the call: the asset URL, expiry_hours, storage_type and the time of the call
    suPc,                \* "start" or "returned"
    suOutput,            \* the URL returned
    \* ---- quality selection ----
    qCalls,              \* the selection calls made so far, each with its arguments and its result
    \* ---- pending-deletion table and cleanup_lock, thread by thread ----
    plLock,              \* holder of self.cleanup_lock: "free" or the thread holding it
    plPc,                \* position of the sweep thread and of each asset's timer thread
    plTable,             \* the asset ids in self.pending_deletions
    plLast,              \* the last mutation of the table: operation, thread, lock holder then
    \* ---- the AI image call of each pool worker, and the fan-in ----
    aiService,           \* what the AI image service does for the call of each task
    aiPc,                \* position of each task of the pool
    aiFanIn,             \* "waiting" (in as_completed) or "returned"
    \* ---- one call of UniquenessValidator.check_uniqueness ----
    uqInput,             \* the candidate image and the accepted images (each the content of its grid)
    uqPc,                \* "start" or "done"
    uqResult,            \* what check_uniqueness returned
    \* ---- one call of OptimizedEncoder.batch_encode_clips ----
    beInput,             \* clips (a sequence of clip ids) and batch_size
    beI,                 \* the loop variable i of range(0, len(clips), batch_size)
    bePc,                \* "loop", "returned" or "raised"
    beSegments,          \* the segments written so far: file index and clips, in output_paths order
    \* ---- the random module shared by the pool workers ----
    rngState,            \* the state of the global generator of module random
    rwText,              \* the lyric text of each worker
    rwPc,                \* statements of the procedural generator each worker has run
    rwOut,               \* the values each worker has drawn
    \* ---- the image reference of a scene, from generator to renderer ----
    irInput,             \* generation path, generator, image drawn, whether WEBP encoding works
    irPc,                \* "start", "generated", "scene" or "rendered"
    irRef,               \* the reference as its comma-separated fields
    irClip               \* the background clip the renderer built

sceneVars == <<entry, parallel_processing, lyrics, path, phase, scenes,
               previous_images, seqI, attempt, seqRaised, task>>

cacheVars == <<recency, lastOp, tpc, targ, keyError>>

durationVars == <<lyric, bpm, called, duration>>

lifecycleVars == <<now, cloudinary_available, storage, pending_deletions, timers,
                   sweepDue, jobs, uploads, deleted, outage, lastDelete>>

backgroundVars == <<bgInput, bgPc, bgOutput>>

jobVars == <<jobData, jobPc, jobScenes, jobSteps, jobFile, jobResult, jobWebhooks>>

dispatchVars == <<dInput, dPc, dOutcome>>

renderVars == <<rInput, rPc, rBg, rClips>>

sweepVars == <<swPc, swSlept, swErrors, swCycles>>

motionVars == <<mClip, mSamples>>

signedUrlVars == <<suInput, suPc, suOutput>>

qualityVars == <<qCalls>>

pendingLockVars == <<plLock, plPc, plTable, plLast>>

aiCallVars == <<aiService, aiPc, aiFanIn>>

uniquenessVars == <<uqInput, uqPc, uqResult>>

batchVars == <<beInput, beI, bePc, beSegments>>

randomVars == <<rngState, rwText, rwPc, rwOut>>

imageRefVars == <<irInput, irPc, irRef, irClip>>

nonBackgroundVars == <<sceneVars, cache, cacheVars, durationVars, lifecycleVars,
    jobVars,
    dispatchVars,
    renderVars,
    sweepVars,
    motionVars,
    signedUrlVars,
    qualityVars,
    pendingLockVars,
    aiCallVars,
    uniquenessVars,
    batchVars,
    randomVars,
    imageRefVars>>

nonSceneVars == <<cacheVars, durationVars, lifecycleVars,
    backgroundVars,
    jobVars,
    dispatchVars,
    renderVars,
    sweepVars,
    motionVars,
    signedUrlVars,
    qualityVars,
    pendingLockVars,
    aiCallVars,
    uniquenessVars,
    batchVars,
    randomVars,
    imageRefVars>>

nonCacheVars == <<sceneVars, durationVars, lifecycleVars,
    backgroundVars,
    jobVars,
    dispatchVars,
    renderVars,
    sweepVars,
    motionVars,
    signedUrlVars,
    qualityVars,
    pendingLockVars,
    aiCallVars,
    uniquenessVars,
    batchVars,
    randomVars,
    imageRefVars>>

nonDurationVars == <<sceneVars, cache, cacheVars, lifecycleVars,
    backgroundVars,
    jobVars,
    dispatchVars,
    renderVars,
    sweepVars,
    motionVars,
    signedUrlVars,
    qualityVars,
    pendingLockVars,
    aiCallVars,
    uniquenessVars,
    batchVars,
    randomVars,
    imageRefVars>>

nonLifecycleVars == <<sceneVars, cache, cacheVars, durationVars,
    backgroundVars,
    jobVars,
    dispatchVars,
    renderVars,
    sweepVars,
    motionVars,
    signedUrlVars,
    qualityVars,
    pendingLockVars,
    aiCallVars,
    uniquenessVars,
    batchVars,
    randomVars,
    imageRefVars>>

nonJobVars == <<sceneVars, cache, cacheVars, durationVars, lifecycleVars,
    backgroundVars,
    dispatchVars,
    renderVars,
    sweepVars,
    motionVars,
    signedUrlVars,
    qualityVars,
    pendingLockVars,
    aiCallVars,
    uniquenessVars,
    batchVars,
    randomVars,
    imageRefVars>>

nonDispatchVars == <<sceneVars, cache, cacheVars, durationVars, lifecycleVars,
    backgroundVars,
    jobVars,
    renderVars,
    sweepVars,
    motionVars,
    signedUrlVars,
    qualityVars,
    pendingLockVars,
    aiCallVars,
    uniquenessVars,
    batchVars,
    randomVars,
    imageRefVars>>

nonRenderVars == <<sceneVars, cache, cacheVars, durationVars, lifecycleVars,
    backgroundVars,
    jobVars,
    dispatchVars,
    sweepVars,
    motionVars,
    signedUrlVars,
    qualityVars,
    pendingLockVars,
    aiCallVars,
    uniquenessVars,
    batchVars,
    randomVars,
    imageRefVars>>

nonSweepVars == <<sceneVars, cache, cacheVars, durationVars, lifecycleVars,
    backgroundVars,
    jobVars,
    dispatchVars,
    renderVars,
    motionVars,
    signedUrlVars,
    qualityVars,
    pendingLockVars,
    aiCallVars,
    uniquenessVars,
    batchVars,
    randomVars,
    imageRefVars>>

nonMotionVars == <<sceneVars, cache, cacheVars, durationVars, lifecycleVars,
    backgroundVars,
    jobVars,
    dispatchVars,
    renderVars,
    sweepVars,
    signedUrlVars,
    qualityVars,
    pendingLockVars,
    aiCallVars,
    uniquenessVars,
    batchVars,
    randomVars,
    imageRefVars>>

nonSignedUrlVars == <<sceneVars, cache, cacheVars, durationVars, lifecycleVars,
    backgroundVars,
    jobVars,
    dispatchVars,
    renderVars,
    sweepVars,
    motionVars,
    qualityVars,
    pendingLockVars,
    aiCallVars,
    uniquenessVars,
    batchVars,
    randomVars,
    imageRefVars>>

nonQualityVars == <<sceneVars, cache, cacheVars, durationVars, lifecycleVars,
    backgroundVars,
    jobVars,
    dispatchVars,
    renderVars,
    sweepVars,
    motionVars,
    signedUrlVars,
    pendingLockVars,
    aiCallVars,
    uniquenessVars,
    batchVars,
    randomVars,
    imageRefVars>>

nonPendingLockVars == <<sceneVars, cache, cacheVars, durationVars, lifecycleVars,
    backgroundVars,
    jobVars,
    dispatchVars,
    renderVars,
    sweepVars,
    motionVars,
    signedUrlVars,
    qualityVars,
    aiCallVars,
    uniquenessVars,
    batchVars,
    randomVars,
    imageRefVars>>

nonAiCallVars == <<sceneVars, cache, cacheVars, durationVars, lifecycleVars,
    backgroundVars,
    jobVars,
    dispatchVars,
    renderVars,
    sweepVars,
    motionVars,
    signedUrlVars,
    qualityVars,
    pendingLockVars,
    uniquenessVars,
    batchVars,
    randomVars,
    imageRefVars>>

nonUniquenessVars == <<sceneVars, cache, cacheVars, durationVars, lifecycleVars,
    backgroundVars,
    jobVars,
    dispatchVars,
    renderVars,
    sweepVars,
    motionVars,
    signedUrlVars,
    qualityVars,
    pendingLockVars,
    aiCallVars,
    batchVars,
    randomVars,
    imageRefVars>>

nonBatchVars == <<sceneVars, cache, cacheVars, durationVars, lifecycleVars,
    backgroundVars,
    jobVars,
    dispatchVars,
    renderVars,
    sweepVars,
    motionVars,
    signedUrlVars,
    qualityVars,
    pendingLockVars,
    aiCallVars,
    uniquenessVars,
    randomVars,
    imageRefVars>>

nonRandomVars == <<sceneVars, cache, cacheVars, durationVars, lifecycleVars,
    backgroundVars,
    jobVars,
    dispatchVars,
    renderVars,
    sweepVars,
    motionVars,
    signedUrlVars,
    qualityVars,
    pendingLockVars,
    aiCallVars,
    uniquenessVars,
    batchVars,
    imageRefVars>>

nonImageRefVars == <<sceneVars, cache, cacheVars, durationVars, lifecycleVars,
    backgroundVars,
    jobVars,
    dispatchVars,
    renderVars,
    sweepVars,
    motionVars,
    signedUrlVars,
    qualityVars,
    pendingLockVars,
    aiCallVars,
    uniquenessVars,
    batchVars,
    randomVars>>

vars == <<sceneVars, cache, cacheVars, durationVars, lifecycleVars,
    backgroundVars,
    jobVars,
    dispatchVars,
    renderVars,
    sweepVars,
    motionVars,
    signedUrlVars,
    qualityVars,
    pendingLockVars,
    aiCallVars,
    uniquenessVars,
    batchVars,
    randomVars,
    imageRefVars>>

-----------------------------------------------------------------------------
(* Bounds of the model *)

MaxLyrics == 4
NumImages == 2
\* Stand-in for ModelCache._max_size (100): the capacity of the modelled cache.
CacheMaxSize == 2
\* Stand-in for the 32 hex digits of an MD5 digest.
DigestLen == 4
\* Threads calling ModelCache at the same time.
NumThreads == 2
MaxTextLen == 9
MaxBpm == 240
\* Stand-in for the 24-hour window (expiry_hours * 3600 seconds), in ticks.
ExpiryTicks == 4
\* Stand-in for the cleanup_worker's sleep of 3600 seconds, in ticks.
SweepPeriod == 2
MaxTime == 8
MaxUploads == 3
\* Stand-in for max_results=100 of the sweep's listing call.
MaxResults == 1

(* Program constants *)

MaxAttempts == 3
MaxWorkers == 4
ParallelThreshold == 3
ThresholdPct == 85

\* The lyric texts of the modelled jobs: two texts, so that a job can repeat a line.
Texts == {1, 2}
Images == 0..(NumImages - 1)

-----------------------------------------------------------------------------
(* Sequence helpers *)

Range(s) == {s[k] : k \in 1..Len(s)}

RECURSIVE SeqsUpTo(_, _)
SeqsUpTo(S, n) ==
    IF n = 0 THEN {<< >>}
    ELSE LET shorter == SeqsUpTo(S, n - 1)
         IN shorter \cup {Append(s, x) : s \in {t \in shorter : Len(t) = n - 1}, x \in S}

-----------------------------------------------------------------------------
(* UniquenessValidator *)

\* hashlib.md5(...).hexdigest(): a digest of DigestLen hexadecimal digits in
\* which two different inputs differ (here: in every position).
Md5Hex(x) == [p \in 1..DigestLen |-> ((2 * p + 1) * x + p) % 16]

\* calculate_image_hash: the MD5 digest of the binarized 8x8 grid; an image of
\* the model is the content of that grid.
calculate_image_hash(image) == Md5Hex(image)

\* sum(a == b for a, b in zip(new_hash, prev_hash))
MatchingDigits(h1, h2) == Cardinality({p \in 1..DigestLen : h1[p] = h2[p]})

\* similarity > threshold, with similarity = matching / len(new_hash)
SimilarityAbove(new_image, prev_image) ==
    MatchingDigits(calculate_image_hash(new_image), calculate_image_hash(prev_image)) * 100
        > ThresholdPct * DigestLen

check_uniqueness(new_image, previous) ==
    \A k \in 1..Len(previous) : ~SimilarityAbove(new_image, previous[k])

-----------------------------------------------------------------------------
(* ModelCache: an OrderedDict as a sequence of [key, val], oldest first *)

CacheKeys(c) == {c[k].key : k \in 1..Len(c)}

CachePos(c, key) == CHOOSE k \in 1..Len(c) : c[k].key = key

CacheVal(c, key) == c[CachePos(c, key)].val

\* cls._cache[key] = texture: a new key goes last, a present key keeps its place.
CacheSetItem(c, key, texture) ==
    IF key \in CacheKeys(c)
    THEN [c EXCEPT ![CachePos(c, key)].val = texture]
    ELSE Append(c, [key |-> key, val |-> texture])

\* OrderedDict.move_to_end(key), for a present key.
MoveToEndNoop(c, key) == c
MoveToEnd(c, key) ==
    LET p == CachePos(c, key)
    IN Append(SubSeq(c, 1, p - 1) \o SubSeq(c, p + 1, Len(c)), c[p])

\* OrderedDict.popitem(last=False)
PopFirst(c) == Tail(c)

\* if len(cls._cache) > cls._max_size: cls._cache.popitem(last=False)
EvictOnOverflow(c) == IF Len(c) > CacheMaxSize THEN PopFirst(c) ELSE c

\* ModelCache.cache_texture, run by one caller without interruption.
cache_texture(c, key, texture) ==
    EvictOnOverflow(MoveToEnd(CacheSetItem(c, key, texture), key))

\* ModelCache.get_cache_key(text, style name, mood): style and mood are fixed
\* within a model run, the key is determined by the text.
get_cache_key(text) == <<"key", text>>

-----------------------------------------------------------------------------
(* Scene generation *)

\* A scene: id, lyric and image are the code's; attempts and unique record how
\* the background was accepted (synthesis attempts made, and whether the
\* accepted background passed check_uniqueness).
SceneZeroBased(i, text, image, attempts, unique) ==
    [id |-> i - 1, lyric |-> text, image |-> image, attempts |-> attempts, unique |-> unique]
Scene(i, text, image, attempts, unique) ==
    [id |-> i, lyric |-> text, image |-> image, attempts |-> attempts, unique |-> unique]

\* scenes.sort(key=lambda x: x["id"])
SortByIdUnsorted(s) == s
SortById(s) ==
    [k \in 1..Len(s) |->
        CHOOSE e \in Range(s) :
            Cardinality({x \in Range(s) : x.id < e.id}) = k - 1]

\* A submitted future: its position, the background it holds between its
\* uniqueness check and its append, and whether process_single_lyric raised.
QueuedTasks == [i \in 1..Len(lyrics) |-> [pc |-> "queued", image |-> 0, raised |-> FALSE]]

\* OptimizedVideoPipeline._generate_optimized_scenes, and generate_lyric_video_pro,
\* which always calls generate_styled_scenes.
UseParallelFor(e, pp, ls) ==
    /\ e = "pipeline"
    /\ pp
    /\ Len(ls) > ParallelThreshold

\* The jobs: parallel_processing is a setting of the pipeline entry point only.
\* parallel_generate_scenes never branches on a lyric's text (the text is only
\* copied into the scene), so the jobs of the parallel path repeat one text.
Jobs ==
    {j \in [entry : {"pipeline", "task_queue"}, pp : BOOLEAN, lyrics : SeqsUpTo(Texts, MaxLyrics)] :
        /\ j.entry = "task_queue" => ~j.pp
        /\ UseParallelFor(j.entry, j.pp, j.lyrics) =>
               \A k \in 1..Len(j.lyrics) : j.lyrics[k] = j.lyrics[1]}

InitScenes ==
    /\ \E j \in Jobs :
          /\ entry = j.entry
          /\ parallel_processing = j.pp
          /\ lyrics = j.lyrics
    /\ path = "none"
    /\ phase = "start"
    /\ scenes = << >>
    /\ previous_images = << >>
    /\ seqI = 1
    /\ attempt = 0
    /\ seqRaised = {}
    /\ task = << >>
    /\ cache = << >>
    /\ recency = << >>
    /\ lastOp = [op |-> "none", key |-> <<"key", 0>>, evicted |-> {}, expected |-> {}]
    /\ tpc = [t \in 1..NumThreads |-> "idle"]
    /\ targ = [t \in 1..NumThreads |-> [key |-> <<"key", 0>>, val |-> 0]]
    /\ keyError = FALSE
    /\ lyric = [text |-> << >>, duration |-> [present |-> FALSE, num |-> 0, den |-> 1]]
    /\ bpm = 0
    /\ called = "none"
    /\ duration = [num |-> 0, den |-> 1]
    /\ now = 0
    /\ cloudinary_available = TRUE
    /\ storage = {}
    /\ pending_deletions = {}
    /\ timers = {}
    /\ sweepDue = SweepPeriod
    /\ jobs = 0
    /\ uploads = {}
    /\ deleted = {}
    /\ outage = FALSE
    /\ lastDelete = [called |-> FALSE, asset_id |-> << >>, alreadyDeleted |-> FALSE,
                     returned |-> FALSE, storageSame |-> TRUE, pendingSame |-> TRUE]
    /\ bgInput = [hf_token |-> FALSE, hf_available |-> FALSE, ai |-> "raises", style |-> {}]
    /\ bgPc = "start"
    /\ bgOutput = "none"
    /\ jobData = [entry |-> "pipeline", has_lyrics |-> FALSE, has_songTitle |-> FALSE,
                  webhook_url |-> FALSE, lyric_count |-> 0, motion_interpolation |-> FALSE]
    /\ jobPc = "start"
    /\ jobScenes = 0
    /\ jobSteps = << >>
    /\ jobFile = "none"
    /\ jobResult = [success |-> FALSE, error |-> "none", secure_url |-> [scheme |-> "none", path |-> << >>, ext |-> "none"],
                    public_id |-> << >>, upload_error |-> FALSE, expires |-> FALSE]
    /\ jobWebhooks = {}
    /\ dInput = [entry |-> "none", tag |-> [prefix |-> "", body |-> "unknown", upper |-> FALSE], style |-> "none"]
    /\ dPc = "start"
    /\ dOutcome = [kind |-> "none", fn |-> "none", seconds10 |-> 0]
    /\ rInput = [style |-> "dreamy_ethereal", durations |-> << >>]
    /\ rPc = "background"
    /\ rBg = [kind |-> "none", palette |-> "none", duration |-> 0]
    /\ rClips = << >>
    /\ swPc = "sleeping"
    /\ swSlept = 0
    /\ swErrors = {}
    /\ swCycles = 0
    /\ mClip = [lib |-> "none", fn |-> "none", duration |-> 0, intensity |-> "low"]
    /\ mSamples = << >>
    /\ suInput = [url |-> [scheme |-> "https", netloc |-> "res.cloudinary.com", path |-> "/v/a.mp4", query |-> << >>],
                  expiry_hours |-> 24, storage_type |-> "cloudinary", time |-> 0]
    /\ suPc = "start"
    /\ suOutput = [scheme |-> "https", netloc |-> "res.cloudinary.com", path |-> "/v/a.mp4", query |-> << >>]
    /\ qCalls = << >>
    /\ plLock = "free"
    /\ plPc = [sweep |-> "sleeping", timer |-> << >>]
    /\ plTable = {}
    /\ plLast = [op |-> "none", thread |-> "none", holder |-> "free"]
    /\ aiService = << >>
    /\ aiPc = << >>
    /\ aiFanIn = "waiting"
    /\ uqInput = [candidate |-> 0, accepted |-> << >>]
    /\ uqPc = "start"
    /\ uqResult = TRUE
    /\ beInput = [clips |-> << >>, batch_size |-> 1]
    /\ beI = 0
    /\ bePc = "loop"
    /\ beSegments = << >>
    /\ rngState = 0
    /\ rwText = << >>
    /\ rwPc = << >>
    /\ rwOut = << >>
    /\ irInput = [path |-> "seq", generator |-> "ai", image |-> 0, webp |-> TRUE]
    /\ irPc = "start"
    /\ irRef = << >>
    /\ irClip = [kind |-> "none", image |-> 0]

UseParallel == UseParallelFor(entry, parallel_processing, lyrics)

SelectPath ==
    /\ phase = "start"
    /\ phase' = "generating"
    /\ path' = IF UseParallel THEN "par" ELSE "seq"
    /\ task' = IF UseParallel THEN QueuedTasks ELSE << >>
    /\ UNCHANGED nonSceneVars
    /\ UNCHANGED <<entry, parallel_processing, lyrics, scenes, previous_images,
                   seqI, attempt, seqRaised, cache>>

\* ---- generate_styled_scenes: one pass of `for attempt in range(max_attempts)` ----

SeqNextLyric ==
    /\ seqI' = seqI + 1
    /\ attempt' = 0

\* A pass whose body raises: the except clause of the lyric drops the scene.
SeqRaise ==
    /\ seqRaised' = seqRaised \cup {seqI}
    /\ scenes' = scenes
    /\ previous_images' = previous_images
    /\ cache' = cache
    /\ SeqNextLyric

\* (a pass that drops the scene when the retries are exhausted)
SeqCheckedDropExhausted(image) ==
    /\ seqRaised' = seqRaised
    /\ IF check_uniqueness(image, previous_images)
       THEN /\ previous_images' = Append(previous_images, image)
            /\ scenes' = Append(scenes, Scene(seqI, lyrics[seqI], image, attempt + 1, TRUE))
            /\ SeqNextLyric
       ELSE /\ previous_images' = previous_images
            /\ scenes' = scenes
            /\ IF attempt = MaxAttempts - 1
               THEN SeqNextLyric
               ELSE seqI' = seqI /\ attempt' = attempt + 1
\* A pass that obtained image_base64 (from the cache or newly generated).
SeqChecked(image) ==
    /\ seqRaised' = seqRaised
    /\ IF check_uniqueness(image, previous_images)
       THEN /\ previous_images' = Append(previous_images, image)
            /\ scenes' = Append(scenes, Scene(seqI, lyrics[seqI], image, attempt + 1, TRUE))
            /\ SeqNextLyric
       ELSE IF attempt = MaxAttempts - 1
            THEN /\ previous_images' = previous_images
                 /\ scenes' = Append(scenes, Scene(seqI, lyrics[seqI], image, attempt + 1, FALSE))
                 /\ SeqNextLyric
            ELSE /\ previous_images' = previous_images
                 /\ scenes' = scenes
                 /\ seqI' = seqI
                 /\ attempt' = attempt + 1

SeqAttempt ==
    /\ phase = "generating"
    /\ path = "seq"
    /\ seqI <= Len(lyrics)
    /\ LET key == get_cache_key(lyrics[seqI])
       IN IF key \in CacheKeys(cache)
          THEN /\ cache' = cache
               /\ SeqChecked(CacheVal(cache, key))
          ELSE \/ SeqRaise
               \/ \E out \in Images :
                     /\ cache' = cache_texture(cache, key, out)
                     /\ SeqChecked(out)
    /\ UNCHANGED nonSceneVars
    /\ UNCHANGED <<entry, parallel_processing, lyrics, path, phase, task>>

SeqReturn ==
    /\ phase = "generating"
    /\ path = "seq"
    /\ seqI > Len(lyrics)
    /\ phase' = "returned"
    /\ UNCHANGED nonSceneVars
    /\ UNCHANGED <<entry, parallel_processing, lyrics, path, scenes, previous_images,
                   seqI, attempt, seqRaised, task, cache>>

\* ---- ParallelProcessor.parallel_generate_scenes ----

Done == {i \in DOMAIN task : task[i].pc = "done"}

\* ThreadPoolExecutor(max_workers): the pool takes the submitted work items in
\* order, max_workers at a time, so work item i has been taken by a worker
\* once i - max_workers items have completed.
Started(i) == i <= MaxWorkers + Cardinality(Done)

\* process_single_lyric up to the result of check_uniqueness: the background
\* is generated, then compared with the shared list as it is at that moment.
\* A task that raises, or whose background is not unique, returns None: the
\* future completes and as_completed appends nothing.
ParCheck(i) ==
    /\ phase = "generating"
    /\ path = "par"
    /\ task[i].pc = "queued"
    /\ Started(i)
    /\ \/ task' = [task EXCEPT ![i].pc = "done", ![i].raised = TRUE]
       \/ \E out \in Images :
             task' = [task EXCEPT ![i] =
                 IF check_uniqueness(out, previous_images)
                 THEN [pc |-> "checked", image |-> out, raised |-> FALSE]
                 ELSE [pc |-> "done", image |-> 0, raised |-> FALSE]]
    /\ UNCHANGED nonSceneVars
    /\ UNCHANGED <<entry, parallel_processing, lyrics, path, phase, scenes,
                   previous_images, seqI, attempt, seqRaised, cache>>

\* previous_images.append(image_base64), the return of the scene, and the
\* main thread's `for future in as_completed(futures): scenes.append(scene)`:
\* the scenes are collected in the order the futures complete.
ParAppend(i) ==
    /\ phase = "generating"
    /\ path = "par"
    /\ task[i].pc = "checked"
    /\ previous_images' = Append(previous_images, task[i].image)
    /\ scenes' = Append(scenes, Scene(i, lyrics[i], task[i].image, 1, TRUE))
    /\ task' = [task EXCEPT ![i].pc = "done", ![i].image = 0]
    /\ UNCHANGED nonSceneVars
    /\ UNCHANGED <<entry, parallel_processing, lyrics, path, phase,
                   seqI, attempt, seqRaised, cache>>

\* The with-block ends when every future has completed; then sort and return.
ParReturn ==
    /\ phase = "generating"
    /\ path = "par"
    /\ \A i \in DOMAIN task : task[i].pc = "done"
    /\ scenes' = SortById(scenes)
    /\ phase' = "returned"
    /\ UNCHANGED nonSceneVars
    /\ UNCHANGED <<entry, parallel_processing, lyrics, path, previous_images,
                   seqI, attempt, seqRaised, task, cache>>

NextScenes ==
    \/ SelectPath
    \/ SeqAttempt
    \/ SeqReturn
    \/ \E i \in DOMAIN task : ParCheck(i)
    \/ \E i \in DOMAIN task : ParAppend(i)
    \/ ParReturn

SpecScenes == InitScenes /\ [][NextScenes]_vars

-----------------------------------------------------------------------------
(* Scene generation: properties *)

Returned == phase = "returned"

SceneIds == [k \in 1..Len(scenes) |-> scenes[k].id]

StrictlyIncreasing(ids) == \A k \in 1..(Len(ids) - 1) : ids[k] < ids[k + 1]

\* C1: on both generation paths the returned scenes are in strictly increasing
\* id order, each scene carrying the lyric of its position (lyric order),
\* whatever order the parallel futures completed in; and the parallel call
\* returns only when every submitted future has completed.
C1_ReturnedInLyricOrder ==
    Returned =>
        /\ StrictlyIncreasing(SceneIds)
        /\ \A k \in 1..Len(scenes) :
              /\ scenes[k].id \in 1..Len(lyrics)
              /\ scenes[k].lyric = lyrics[scenes[k].id]
        /\ path = "par" => \A i \in DOMAIN task : task[i].pc = "done"

\* C1 witness: a parallel job has returned at least two scenes whose futures
\* completed in another order than their ids (previous_images keeps the
\* completion order, scenes is sorted).
C1_Witness ==
    /\ Returned
    /\ path = "par"
    /\ Len(scenes) >= 2
    /\ \E k \in 1..Len(scenes) : scenes[k].image # previous_images[k]

Exhausted(s) == s.attempts = MaxAttempts /\ ~s.unique

\* C3: in the returned list, two scenes whose backgrounds have similarity above
\* the threshold include one whose retry budget of 3 attempts was exhausted.
C3_SimilarOnlyIfExhausted ==
    Returned =>
        \A a, b \in 1..Len(scenes) :
            (a < b /\ SimilarityAbove(scenes[a].image, scenes[b].image))
                => (Exhausted(scenes[a]) \/ Exhausted(scenes[b]))

\* C10: the parallel path is taken exactly for pipeline jobs with parallel
\* processing enabled and more than 3 lyric lines; and on the parallel path as
\* many scenes are returned as there are lyric lines unless a task raised.
C10_ParallelKeepsEveryLyric ==
    /\ phase # "start" =>
          /\ (parallel_processing /\ entry = "pipeline" /\ Len(lyrics) > 3) => path = "par"
          /\ Len(lyrics) <= 3 => path = "seq"
    /\ (Returned /\ path = "par" /\ \A i \in DOMAIN task : ~task[i].raised)
          => Len(scenes) = Len(lyrics)

\* The positions of the lyrics whose scene synthesis raised: the loop bodies
\* that reached `except Exception` in generate_styled_scenes, the tasks that
\* reached it in process_single_lyric.
RaisedLyrics ==
    IF path = "par" THEN {i \in DOMAIN task : task[i].raised} ELSE seqRaised

\* C15: when the synthesis of a lyric's scene raises, on either path, scene
\* generation still returns, and the returned list lacks the scenes of the
\* lyrics that raised and of no other lyric.
C15_OnlyRaisingSceneAbsent ==
    /\ (phase = "generating" /\ RaisedLyrics # {}) => ENABLED NextScenes
    /\ Returned => Range(SceneIds) = (1..Len(lyrics)) \ RaisedLyrics

\* The parallel tasks that have passed check_uniqueness and not yet appended
\* their background to previous_images.
BetweenCheckAndAppend == {i \in DOMAIN task : task[i].pc = "checked"}

\* C23: on the parallel path the uniqueness check and the append are one
\* critical section: no other worker passes its check while a worker is
\* between its check and its append, and no two backgrounds with similarity
\* above the threshold are both accepted as unique.
C23_CheckAndAppendAtomic ==
    path = "par" =>
        /\ Cardinality(BetweenCheckAndAppend) <= 1
        /\ \A a, b \in 1..Len(scenes) :
              (a # b /\ SimilarityAbove(scenes[a].image, scenes[b].image))
                  => ~(scenes[a].unique /\ scenes[b].unique)

\* C25: a parallel task follows the retry and uniqueness loop of the
\* sequential path: a task that completed without raising has emitted its
\* scene (at a unique attempt, or at the third attempt with the background
\* kept), so no task ends after a non-unique attempt without a scene.
C25_ParallelTaskRunsRetryLoop ==
    path = "par" =>
        \A i \in DOMAIN task :
            (task[i].pc = "done" /\ ~task[i].raised)
                => \E k \in 1..Len(scenes) : scenes[k].id = i

\* The backgrounds accepted as unique before the scene at position k of the
\* list: previous_images as it was when that scene was checked.
AcceptedBefore(k) ==
    LET earlier == SelectSeq(SubSeq(scenes, 1, k - 1), LAMBDA sc : sc.unique)
    IN [n \in 1..Len(earlier) |-> earlier[n].image]

SceneCacheHit ==
    /\ phase = "generating"
    /\ path = "seq"
    /\ seqI <= Len(lyrics)
    /\ get_cache_key(lyrics[seqI]) \in CacheKeys(cache)

\* C27: a cache hit during scene synthesis promotes the entry read to most
\* recently used, as a put does: after the pass the entry is the last of the
\* cache's order, the other entries keeping theirs.
C27_SceneCacheHitPromotes ==
    [][SceneCacheHit => cache' = MoveToEnd(cache, get_cache_key(lyrics[seqI]))]_vars

\* C37: in the sequential retry loop, once a background of the current lyric
\* has been rejected as non-unique, the next attempt is not served from the
\* cache: it synthesizes a new background.
C37_RetrySynthesizesAnew ==
    (phase = "generating" /\ path = "seq" /\ seqI <= Len(lyrics) /\ attempt > 0)
        => ~SceneCacheHit

-----------------------------------------------------------------------------
(* ModelCache, one caller at a time *)

\* The keys the callers use: one more than the cache holds.
CallerKeys == {get_cache_key(n) : n \in 1..(CacheMaxSize + 1)}

Threads == 1..NumThreads

NoKey == <<"key", 0>>

KeyOrder(c) == [k \in 1..Len(c) |-> c[k].key]

\* The access-recency order after key is accessed: key becomes the most
\* recent; beyond the capacity the least recently accessed key is forgotten.
Touch(r, key) ==
    LET Other(x) == x # key
        touched == Append(SelectSeq(r, Other), key)
    IN IF Len(touched) > CacheMaxSize THEN Tail(touched) ELSE touched

InitCache ==
    /\ cache = << >>
    /\ recency = << >>
    /\ lastOp = [op |-> "none", key |-> NoKey, evicted |-> {}, expected |-> {}]
    /\ tpc = [t \in 1..NumThreads |-> "idle"]
    /\ targ = [t \in 1..NumThreads |-> [key |-> NoKey, val |-> 0]]
    /\ keyError = FALSE
    /\ entry = "pipeline"
    /\ parallel_processing = FALSE
    /\ lyrics = << >>
    /\ path = "none"
    /\ phase = "start"
    /\ scenes = << >>
    /\ previous_images = << >>
    /\ seqI = 1
    /\ attempt = 0
    /\ seqRaised = {}
    /\ task = << >>
    /\ lyric = [text |-> << >>, duration |-> [present |-> FALSE, num |-> 0, den |-> 1]]
    /\ bpm = 0
    /\ called = "none"
    /\ duration = [num |-> 0, den |-> 1]
    /\ now = 0
    /\ cloudinary_available = TRUE
    /\ storage = {}
    /\ pending_deletions = {}
    /\ timers = {}
    /\ sweepDue = SweepPeriod
    /\ jobs = 0
    /\ uploads = {}
    /\ deleted = {}
    /\ outage = FALSE
    /\ lastDelete = [called |-> FALSE, asset_id |-> << >>, alreadyDeleted |-> FALSE,
                     returned |-> FALSE, storageSame |-> TRUE, pendingSame |-> TRUE]
    /\ bgInput = [hf_token |-> FALSE, hf_available |-> FALSE, ai |-> "raises", style |-> {}]
    /\ bgPc = "start"
    /\ bgOutput = "none"
    /\ jobData = [entry |-> "pipeline", has_lyrics |-> FALSE, has_songTitle |-> FALSE,
                  webhook_url |-> FALSE, lyric_count |-> 0, motion_interpolation |-> FALSE]
    /\ jobPc = "start"
    /\ jobScenes = 0
    /\ jobSteps = << >>
    /\ jobFile = "none"
    /\ jobResult = [success |-> FALSE, error |-> "none", secure_url |-> [scheme |-> "none", path |-> << >>, ext |-> "none"],
                    public_id |-> << >>, upload_error |-> FALSE, expires |-> FALSE]
    /\ jobWebhooks = {}
    /\ dInput = [entry |-> "none", tag |-> [prefix |-> "", body |-> "unknown", upper |-> FALSE], style |-> "none"]
    /\ dPc = "start"
    /\ dOutcome = [kind |-> "none", fn |-> "none", seconds10 |-> 0]
    /\ rInput = [style |-> "dreamy_ethereal", durations |-> << >>]
    /\ rPc = "background"
    /\ rBg = [kind |-> "none", palette |-> "none", duration |-> 0]
    /\ rClips = << >>
    /\ swPc = "sleeping"
    /\ swSlept = 0
    /\ swErrors = {}
    /\ swCycles = 0
    /\ mClip = [lib |-> "none", fn |-> "none", duration |-> 0, intensity |-> "low"]
    /\ mSamples = << >>
    /\ suInput = [url |-> [scheme |-> "https", netloc |-> "res.cloudinary.com", path |-> "/v/a.mp4", query |-> << >>],
                  expiry_hours |-> 24, storage_type |-> "cloudinary", time |-> 0]
    /\ suPc = "start"
    /\ suOutput = [scheme |-> "https", netloc |-> "res.cloudinary.com", path |-> "/v/a.mp4", query |-> << >>]
    /\ qCalls = << >>
    /\ plLock = "free"
    /\ plPc = [sweep |-> "sleeping", timer |-> << >>]
    /\ plTable = {}
    /\ plLast = [op |-> "none", thread |-> "none", holder |-> "free"]
    /\ aiService = << >>
    /\ aiPc = << >>
    /\ aiFanIn = "waiting"
    /\ uqInput = [candidate |-> 0, accepted |-> << >>]
    /\ uqPc = "start"
    /\ uqResult = TRUE
    /\ beInput = [clips |-> << >>, batch_size |-> 1]
    /\ beI = 0
    /\ bePc = "loop"
    /\ beSegments = << >>
    /\ rngState = 0
    /\ rwText = << >>
    /\ rwPc = << >>
    /\ rwOut = << >>
    /\ irInput = [path |-> "seq", generator |-> "ai", image |-> 0, webp |-> TRUE]
    /\ irPc = "start"
    /\ irRef = << >>
    /\ irClip = [kind |-> "none", image |-> 0]

\* A complete call of ModelCache.cache_texture(key, texture).
CacheTextureCall(key, texture) ==
    /\ cache' = cache_texture(cache, key, texture)
    /\ recency' = Touch(recency, key)
    /\ lastOp' = [op |-> "put", key |-> key,
                  evicted |-> (CacheKeys(cache) \cup {key}) \ CacheKeys(cache'),
                  expected |-> IF key \notin CacheKeys(cache) /\ Len(cache) = CacheMaxSize
                               THEN {Head(recency)} ELSE {}]
    /\ UNCHANGED <<tpc, targ, keyError, nonCacheVars>>

\* A complete call of ModelCache.get_cached_texture(key) on a present key.
GetCachedTextureHit(key) ==
    /\ key \in CacheKeys(cache)
    /\ cache' = MoveToEnd(cache, key)
    /\ recency' = Touch(recency, key)
    /\ lastOp' = [op |-> "get", key |-> key,
                  evicted |-> CacheKeys(cache) \ CacheKeys(cache'), expected |-> {}]
    /\ UNCHANGED <<tpc, targ, keyError, nonCacheVars>>

\* get_cached_texture(key) on an absent key returns None and touches nothing.
GetCachedTextureMiss(key) ==
    /\ key \notin CacheKeys(cache)
    /\ lastOp' = [op |-> "miss", key |-> key, evicted |-> {}, expected |-> {}]
    /\ UNCHANGED <<cache, recency, tpc, targ, keyError, nonCacheVars>>

NextCache ==
    \/ \E key \in CallerKeys, texture \in Images : CacheTextureCall(key, texture)
    \/ \E key \in CallerKeys : GetCachedTextureHit(key)
    \/ \E key \in CallerKeys : GetCachedTextureMiss(key)

SpecCache == InitCache /\ [][NextCache]_vars

\* C7: ModelCache is least-recently-used. The OrderedDict holds the keys in
\* the order of their last access (so a key read by get_cached_texture is the
\* most recent one and is evicted last among the keys present); a
\* cache_texture of a new key into a full cache evicts exactly one key, the
\* least recently accessed one, and no other call evicts anything.
C7_LeastRecentlyUsed ==
    /\ KeyOrder(cache) = recency
    /\ lastOp.evicted = lastOp.expected
    /\ Cardinality(lastOp.evicted) <= 1
    /\ lastOp.op \in {"put", "get"} => cache[Len(cache)].key = lastOp.key

\* C7 witness: a cache_texture has just evicted a key from a full cache whose
\* oldest inserted entries had been re-ordered by accesses.
C7_Witness ==
    /\ lastOp.op = "put"
    /\ lastOp.evicted # {}
    /\ Len(cache) = CacheMaxSize
    /\ \E a, b \in 1..Len(cache) : a < b /\ cache[a].key[2] > cache[b].key[2]

-----------------------------------------------------------------------------
(* ModelCache, several callers: the methods take no lock, so the statements
   of calls made by different threads interleave. tpc[t] is the statement
   thread t executes next. *)

\* The keys the concurrent callers use: enough distinct keys for one thread to
\* push out an entry a stalled thread has just stored.
ThreadKeys == {get_cache_key(n) : n \in 1..(CacheMaxSize + 3)}

\* The texture a caller stores under a key: the background generated from
\* the inputs the key is the fingerprint of.
TextureOf(key) == key[2] % NumImages

ThreadVarsUnchanged == UNCHANGED <<recency, lastOp, nonCacheVars>>

\* Thread t enters cache_texture(key, texture).
PutCall(t, key) ==
    /\ tpc[t] = "idle"
    /\ tpc' = [tpc EXCEPT ![t] = "set"]
    /\ targ' = [targ EXCEPT ![t] = [key |-> key, val |-> TextureOf(key)]]
    /\ UNCHANGED <<cache, keyError>>
    /\ ThreadVarsUnchanged

\* cls._cache[key] = texture
PutSet(t) ==
    /\ tpc[t] = "set"
    /\ cache' = CacheSetItem(cache, targ[t].key, targ[t].val)
    /\ tpc' = [tpc EXCEPT ![t] = "move"]
    /\ UNCHANGED <<targ, keyError>>
    /\ ThreadVarsUnchanged

\* cls._cache.move_to_end(key): KeyError when the key is no longer there.
PutMove(t) ==
    /\ tpc[t] = "move"
    /\ IF targ[t].key \in CacheKeys(cache)
       THEN /\ cache' = MoveToEnd(cache, targ[t].key)
            /\ tpc' = [tpc EXCEPT ![t] = "len"]
            /\ UNCHANGED keyError
       ELSE /\ keyError' = TRUE
            /\ tpc' = [tpc EXCEPT ![t] = "idle"]
            /\ UNCHANGED cache
    /\ UNCHANGED targ
    /\ ThreadVarsUnchanged

\* if len(cls._cache) > cls._max_size
PutLen(t) ==
    /\ tpc[t] = "len"
    /\ tpc' = [tpc EXCEPT ![t] = IF Len(cache) > CacheMaxSize THEN "pop" ELSE "idle"]
    /\ UNCHANGED <<cache, targ, keyError>>
    /\ ThreadVarsUnchanged

\* cls._cache.popitem(last=False)
PutPop(t) ==
    /\ tpc[t] = "pop"
    /\ IF Len(cache) > 0
       THEN cache' = PopFirst(cache) /\ UNCHANGED keyError
       ELSE keyError' = TRUE /\ UNCHANGED cache
    /\ tpc' = [tpc EXCEPT ![t] = "idle"]
    /\ UNCHANGED targ
    /\ ThreadVarsUnchanged

\* Thread t enters get_cached_texture(key) and evaluates `key in cls._cache`.
GetTest(t, key) ==
    /\ tpc[t] = "idle"
    /\ targ' = [targ EXCEPT ![t] = [key |-> key, val |-> 0]]
    /\ tpc' = [tpc EXCEPT ![t] = IF key \in CacheKeys(cache) THEN "gmove" ELSE "idle"]
    /\ UNCHANGED <<cache, keyError>>
    /\ ThreadVarsUnchanged

\* cls._cache.move_to_end(key)
GetMove(t) ==
    /\ tpc[t] = "gmove"
    /\ IF targ[t].key \in CacheKeys(cache)
       THEN /\ cache' = MoveToEnd(cache, targ[t].key)
            /\ tpc' = [tpc EXCEPT ![t] = "read"]
            /\ UNCHANGED keyError
       ELSE /\ keyError' = TRUE
            /\ tpc' = [tpc EXCEPT ![t] = "idle"]
            /\ UNCHANGED cache
    /\ UNCHANGED targ
    /\ ThreadVarsUnchanged

\* return cls._cache[key]
GetRead(t) ==
    /\ tpc[t] = "read"
    /\ keyError' = (keyError \/ targ[t].key \notin CacheKeys(cache))
    /\ tpc' = [tpc EXCEPT ![t] = "idle"]
    /\ UNCHANGED <<cache, targ>>
    /\ ThreadVarsUnchanged

NextCacheThreads ==
    \E t \in Threads :
        \/ \E key \in ThreadKeys : PutCall(t, key)
        \/ PutSet(t)
        \/ PutMove(t)
        \/ PutLen(t)
        \/ PutPop(t)
        \/ \E key \in ThreadKeys : GetTest(t, key)
        \/ GetMove(t)
        \/ GetRead(t)

SpecCacheThreads == InitCache /\ [][NextCacheThreads]_vars

\* A thread is inside an operation once it has executed the operation's
\* first statement on the cache and has statements of it left to execute.
InsideOperation(t) == tpc[t] \in {"move", "len", "pop", "gmove", "read"}

Quiescent == \A t \in Threads : tpc[t] = "idle"

QuiescentSizeBound == Quiescent => Len(cache) <= CacheMaxSize

\* C8: with several threads calling the cache, whenever no call is in
\* progress the cache holds at most its configured maximum of entries, and
\* the statement sequence of one operation (set, promote, evict; or test,
\* promote, read) is never interleaved with another operation's: no two
\* threads are inside an operation at once and no operation fails on a key
\* that another operation removed under it.
C8_BoundedAndAtomic ==
    /\ QuiescentSizeBound
    /\ Cardinality({t \in Threads : InsideOperation(t)}) <= 1
    /\ ~keyError

-----------------------------------------------------------------------------
(* calculate_lyric_duration and optimized_calculate_duration. Durations are
   exact fractions [num, den] of seconds with den > 0. *)

Max(a, b) == IF a >= b THEN a ELSE b

LessEq(p, q) == p.num * q.den <= q.num * p.den

One == [num |-> 1, den |-> 1]

\* A text is a string of letters and blanks.
LyricTexts == SeqsUpTo({"a", " "}, MaxTextLen)

\* len(text.split()): the number of maximal runs of non-blank characters.
WordCount(text) ==
    Cardinality({p \in 1..Len(text) :
                    text[p] # " " /\ (p = 1 \/ text[p - 1] = " ")})

\* beats = max(1, words / 4), as a fraction
Beats(words) == IF words >= 4 THEN [num |-> words, den |-> 4] ELSE One

\* seconds_per_beat = 60.0 / max(1, bpm)
SecondsPerBeat(b) == [num |-> 60, den |-> Max(1, b)]

MaxWithOneDropped(q) == q
\* max(duration, 1.0)
MaxWithOne(q) == IF LessEq(One, q) THEN q ELSE One

\* The duration both functions derive from a word count and a bpm.
DerivedDuration(words, b) ==
    MaxWithOne([num |-> Beats(words).num * SecondsPerBeat(b).num,
                den |-> Beats(words).den * SecondsPerBeat(b).den])

optimized_calculate_duration(lyric_text, b) ==
    DerivedDuration(WordCount(lyric_text), b)

CalculateLyricDurationUnclamped(l, b) ==
    IF l.duration.present
    THEN [num |-> l.duration.num, den |-> l.duration.den]
    ELSE [num |-> Beats(WordCount(l.text)).num * SecondsPerBeat(b).num,
          den |-> Beats(WordCount(l.text)).den * SecondsPerBeat(b).den]
\* if "duration" in lyric: return float(lyric["duration"])
calculate_lyric_duration(l, b) ==
    IF l.duration.present
    THEN [num |-> l.duration.num, den |-> l.duration.den]
    ELSE DerivedDuration(WordCount(l.text), b)

\* The "duration" field of a lyric: absent, or a number of seconds.
SuppliedDurations ==
    {[present |-> FALSE, num |-> 0, den |-> 1],
     [present |-> TRUE, num |-> 1, den |-> 2],
     [present |-> TRUE, num |-> 3, den |-> 1]}

BpmValues == {0 - MaxBpm, 0, 1, 60, 120, MaxBpm}

InitDuration ==
    /\ lyric \in [text : LyricTexts, duration : SuppliedDurations]
    /\ bpm \in BpmValues
    /\ called = "none"
    /\ duration = [num |-> 0, den |-> 1]
    /\ now = 0
    /\ cloudinary_available = TRUE
    /\ storage = {}
    /\ pending_deletions = {}
    /\ timers = {}
    /\ sweepDue = SweepPeriod
    /\ jobs = 0
    /\ uploads = {}
    /\ deleted = {}
    /\ outage = FALSE
    /\ lastDelete = [called |-> FALSE, asset_id |-> << >>, alreadyDeleted |-> FALSE,
                     returned |-> FALSE, storageSame |-> TRUE, pendingSame |-> TRUE]
    /\ cache = << >>
    /\ recency = << >>
    /\ lastOp = [op |-> "none", key |-> NoKey, evicted |-> {}, expected |-> {}]
    /\ tpc = [t \in 1..NumThreads |-> "idle"]
    /\ targ = [t \in 1..NumThreads |-> [key |-> NoKey, val |-> 0]]
    /\ keyError = FALSE
    /\ entry = "pipeline"
    /\ parallel_processing = FALSE
    /\ lyrics = << >>
    /\ path = "none"
    /\ phase = "start"
    /\ scenes = << >>
    /\ previous_images = << >>
    /\ seqI = 1
    /\ attempt = 0
    /\ seqRaised = {}
    /\ task = << >>
    /\ bgInput = [hf_token |-> FALSE, hf_available |-> FALSE, ai |-> "raises", style |-> {}]
    /\ bgPc = "start"
    /\ bgOutput = "none"
    /\ jobData = [entry |-> "pipeline", has_lyrics |-> FALSE, has_songTitle |-> FALSE,
                  webhook_url |-> FALSE, lyric_count |-> 0, motion_interpolation |-> FALSE]
    /\ jobPc = "start"
    /\ jobScenes = 0
    /\ jobSteps = << >>
    /\ jobFile = "none"
    /\ jobResult = [success |-> FALSE, error |-> "none", secure_url |-> [scheme |-> "none", path |-> << >>, ext |-> "none"],
                    public_id |-> << >>, upload_error |-> FALSE, expires |-> FALSE]
    /\ jobWebhooks = {}
    /\ dInput = [entry |-> "none", tag |-> [prefix |-> "", body |-> "unknown", upper |-> FALSE], style |-> "none"]
    /\ dPc = "start"
    /\ dOutcome = [kind |-> "none", fn |-> "none", seconds10 |-> 0]
    /\ rInput = [style |-> "dreamy_ethereal", durations |-> << >>]
    /\ rPc = "background"
    /\ rBg = [kind |-> "none", palette |-> "none", duration |-> 0]
    /\ rClips = << >>
    /\ swPc = "sleeping"
    /\ swSlept = 0
    /\ swErrors = {}
    /\ swCycles = 0
    /\ mClip = [lib |-> "none", fn |-> "none", duration |-> 0, intensity |-> "low"]
    /\ mSamples = << >>
    /\ suInput = [url |-> [scheme |-> "https", netloc |-> "res.cloudinary.com", path |-> "/v/a.mp4", query |-> << >>],
                  expiry_hours |-> 24, storage_type |-> "cloudinary", time |-> 0]
    /\ suPc = "start"
    /\ suOutput = [scheme |-> "https", netloc |-> "res.cloudinary.com", path |-> "/v/a.mp4", query |-> << >>]
    /\ qCalls = << >>
    /\ plLock = "free"
    /\ plPc = [sweep |-> "sleeping", timer |-> << >>]
    /\ plTable = {}
    /\ plLast = [op |-> "none", thread |-> "none", holder |-> "free"]
    /\ aiService = << >>
    /\ aiPc = << >>
    /\ aiFanIn = "waiting"
    /\ uqInput = [candidate |-> 0, accepted |-> << >>]
    /\ uqPc = "start"
    /\ uqResult = TRUE
    /\ beInput = [clips |-> << >>, batch_size |-> 1]
    /\ beI = 0
    /\ bePc = "loop"
    /\ beSegments = << >>
    /\ rngState = 0
    /\ rwText = << >>
    /\ rwPc = << >>
    /\ rwOut = << >>
    /\ irInput = [path |-> "seq", generator |-> "ai", image |-> 0, webp |-> TRUE]
    /\ irPc = "start"
    /\ irRef = << >>
    /\ irClip = [kind |-> "none", image |-> 0]

CallCalculateLyricDuration ==
    /\ called = "none"
    /\ called' = "calculate_lyric_duration"
    /\ duration' = calculate_lyric_duration(lyric, bpm)
    /\ UNCHANGED <<lyric, bpm, nonDurationVars>>

CallOptimizedCalculateDuration ==
    /\ called = "none"
    /\ called' = "optimized_calculate_duration"
    /\ duration' = optimized_calculate_duration(lyric.text, bpm)
    /\ UNCHANGED <<lyric, bpm, nonDurationVars>>

\* def calculate_lyric_duration(lyric: dict, bpm: int = 120)
DefaultBpm == 120

\* generate_styled_scenes: calculate_lyric_duration(lyric, data.get("bpm", 120)),
\* bpm being the value the job carries (120 when the job names none).
SequentialSceneDuration ==
    /\ called = "none"
    /\ called' = "generate_styled_scenes"
    /\ duration' = calculate_lyric_duration(lyric, bpm)
    /\ UNCHANGED <<lyric, bpm, nonDurationVars>>

\* process_single_lyric: calculate_lyric_duration(lyric); the job's bpm is not
\* a parameter of parallel_generate_scenes, the default applies.
ParallelSceneDuration ==
    /\ called = "none"
    /\ called' = "process_single_lyric"
    /\ duration' = calculate_lyric_duration(lyric, DefaultBpm)
    /\ UNCHANGED <<lyric, bpm, nonDurationVars>>

NextDuration ==
    \/ CallCalculateLyricDuration
    \/ CallOptimizedCalculateDuration
    \/ SequentialSceneDuration
    \/ ParallelSceneDuration

SpecDuration == InitDuration /\ [][NextDuration]_vars

\* What the call made would have returned for a text of `words` words, the
\* bpm and the lyric's other fields being the same.
DurationForWords(words) ==
    IF called = "calculate_lyric_duration" /\ lyric.duration.present
    THEN [num |-> lyric.duration.num, den |-> lyric.duration.den]
    ELSE DerivedDuration(words, bpm)

AtLeastOneAndMonotone ==
    /\ LessEq(One, duration)
    /\ \A words \in 0..WordCount(lyric.text) :
           LessEq(DurationForWords(words), duration)

StatedSceneDuration ==
    IF lyric.duration.present
    THEN [num |-> lyric.duration.num, den |-> lyric.duration.den]
    ELSE MaxWithOne([num |-> Beats(WordCount(lyric.text)).num * 60,
                     den |-> Beats(WordCount(lyric.text)).den * bpm])

\* C26: for a lyric and a job bpm (of 1 or more), the scene duration computed
\* on the sequential path and the one computed on the parallel path are both
\* the stated duration, hence identical.
C26_SameDurationOnBothPaths ==
    (bpm >= 1 /\ called \in {"generate_styled_scenes", "process_single_lyric"})
        => (LessEq(duration, StatedSceneDuration) /\ LessEq(StatedSceneDuration, duration))

\* C40: the duration of every scene, on either generation path, is at least
\* 1.0 second, also when the lyric supplies its own duration.
C40_SceneDurationAtLeastOne ==
    called \in {"generate_styled_scenes", "process_single_lyric"}
        => LessEq(One, duration)

\* C40 amended: on either generation path the duration of a scene is at
\* least 1.0 second when it is derived from the text, and is the lyric's own
\* duration, unchanged, when the lyric supplies one.
C40_DerivedSceneDurationAtLeastOne ==
    called \in {"generate_styled_scenes", "process_single_lyric"}
        => IF lyric.duration.present
           THEN duration = [num |-> lyric.duration.num, den |-> lyric.duration.den]
           ELSE LessEq(One, duration)

\* C40 witness: the parallel path has derived the duration of a lyric of
\* several words, which the beat arithmetic alone would put below one second.
C40_Witness ==
    /\ called = "process_single_lyric"
    /\ ~lyric.duration.present
    /\ WordCount(lyric.text) > 4
    /\ duration = One

-----------------------------------------------------------------------------
(* StorageLifecycleManager and the upload steps of the two job entry points.
   Time advances in ticks; a sleeping thread runs in the tick it wakes in. *)

JobIds == {"job1", "job2"}

Folder == "lyric-videos"

\* public_id = f"lyric-videos/{data.get('jobId', ...)}", as path segments
PublicIdOf(job) == <<Folder, job>>

\* The secure_url of a stored video: its public_id as the path, then ".mp4".
SecureUrlOf(public_id) == [scheme |-> "https", path |-> public_id, ext |-> "mp4"]

\* f"file://{video_path}"
LocalFileUrl == [scheme |-> "file", path |-> <<"tmp", "lyric_video">>, ext |-> "mp4"]

UploadResultRemoteOnly(job, raises) ==
    [secure_url |-> SecureUrlOf(PublicIdOf(job)), public_id |-> PublicIdOf(job)]
\* What the upload step returns: the storage's answer, or a local-file
\* reference when the credentials are missing or the upload raises.
UploadResult(job, raises) ==
    IF ~cloudinary_available
    THEN [secure_url |-> LocalFileUrl, public_id |-> <<"local-test">>]
    ELSE IF raises
         THEN [secure_url |-> LocalFileUrl, public_id |-> <<"local-fallback">>]
         ELSE [secure_url |-> SecureUrlOf(PublicIdOf(job)), public_id |-> PublicIdOf(job)]

StoredIds(st) == {r.public_id : r \in st}

\* cloudinary.uploader.destroy(public_id): removes the resource of that id,
\* and is a no-op ("not found") when there is none.
Destroy(st, public_id) == {r \in st : r.public_id # public_id}

\* cloudinary.uploader.upload(..., overwrite=True) at time t
StoreUpload(st, public_id, created_at) ==
    Destroy(st, public_id) \cup {[public_id |-> public_id, created_at |-> created_at]}

\* re.search(r'/([^/]+)\.(mp4|webm|mov|avi)$', asset_url).group(1): the last
\* path segment of the URL, without the extension.
UrlPublicId(asset_url) == <<asset_url.path[Len(asset_url.path)]>>

\* self.pending_deletions[asset_id] = expiry_time
PendingSet(pd, asset_id, expiry_time) ==
    {e \in pd : e.asset_id # asset_id}
        \cup {[asset_id |-> asset_id, expiry |-> expiry_time]}

\* if asset_id in self.pending_deletions: del self.pending_deletions[asset_id]
PendingDel(pd, asset_id) == {e \in pd : e.asset_id # asset_id}

InitLifecycle ==
    /\ now = 0
    /\ cloudinary_available \in BOOLEAN
    /\ storage = {}
    /\ pending_deletions = {}
    /\ timers = {}
    /\ sweepDue = SweepPeriod
    /\ jobs = 0
    /\ uploads = {}
    /\ deleted = {}
    /\ outage = FALSE
    /\ lastDelete = [called |-> FALSE, asset_id |-> << >>, alreadyDeleted |-> FALSE,
                     returned |-> FALSE, storageSame |-> TRUE, pendingSame |-> TRUE]
    /\ lyric = [text |-> << >>, duration |-> [present |-> FALSE, num |-> 0, den |-> 1]]
    /\ bpm = 0
    /\ called = "none"
    /\ duration = [num |-> 0, den |-> 1]
    /\ cache = << >>
    /\ recency = << >>
    /\ lastOp = [op |-> "none", key |-> NoKey, evicted |-> {}, expected |-> {}]
    /\ tpc = [t \in 1..NumThreads |-> "idle"]
    /\ targ = [t \in 1..NumThreads |-> [key |-> NoKey, val |-> 0]]
    /\ keyError = FALSE
    /\ entry = "pipeline"
    /\ parallel_processing = FALSE
    /\ lyrics = << >>
    /\ path = "none"
    /\ phase = "start"
    /\ scenes = << >>
    /\ previous_images = << >>
    /\ seqI = 1
    /\ attempt = 0
    /\ seqRaised = {}
    /\ task = << >>
    /\ bgInput = [hf_token |-> FALSE, hf_available |-> FALSE, ai |-> "raises", style |-> {}]
    /\ bgPc = "start"
    /\ bgOutput = "none"
    /\ jobData = [entry |-> "pipeline", has_lyrics |-> FALSE, has_songTitle |-> FALSE,
                  webhook_url |-> FALSE, lyric_count |-> 0, motion_interpolation |-> FALSE]
    /\ jobPc = "start"
    /\ jobScenes = 0
    /\ jobSteps = << >>
    /\ jobFile = "none"
    /\ jobResult = [success |-> FALSE, error |-> "none", secure_url |-> [scheme |-> "none", path |-> << >>, ext |-> "none"],
                    public_id |-> << >>, upload_error |-> FALSE, expires |-> FALSE]
    /\ jobWebhooks = {}
    /\ dInput = [entry |-> "none", tag |-> [prefix |-> "", body |-> "unknown", upper |-> FALSE], style |-> "none"]
    /\ dPc = "start"
    /\ dOutcome = [kind |-> "none", fn |-> "none", seconds10 |-> 0]
    /\ rInput = [style |-> "dreamy_ethereal", durations |-> << >>]
    /\ rPc = "background"
    /\ rBg = [kind |-> "none", palette |-> "none", duration |-> 0]
    /\ rClips = << >>
    /\ swPc = "sleeping"
    /\ swSlept = 0
    /\ swErrors = {}
    /\ swCycles = 0
    /\ mClip = [lib |-> "none", fn |-> "none", duration |-> 0, intensity |-> "low"]
    /\ mSamples = << >>
    /\ suInput = [url |-> [scheme |-> "https", netloc |-> "res.cloudinary.com", path |-> "/v/a.mp4", query |-> << >>],
                  expiry_hours |-> 24, storage_type |-> "cloudinary", time |-> 0]
    /\ suPc = "start"
    /\ suOutput = [scheme |-> "https", netloc |-> "res.cloudinary.com", path |-> "/v/a.mp4", query |-> << >>]
    /\ qCalls = << >>
    /\ plLock = "free"
    /\ plPc = [sweep |-> "sleeping", timer |-> << >>]
    /\ plTable = {}
    /\ plLast = [op |-> "none", thread |-> "none", holder |-> "free"]
    /\ aiService = << >>
    /\ aiPc = << >>
    /\ aiFanIn = "waiting"
    /\ uqInput = [candidate |-> 0, accepted |-> << >>]
    /\ uqPc = "start"
    /\ uqResult = TRUE
    /\ beInput = [clips |-> << >>, batch_size |-> 1]
    /\ beI = 0
    /\ bePc = "loop"
    /\ beSegments = << >>
    /\ rngState = 0
    /\ rwText = << >>
    /\ rwPc = << >>
    /\ rwOut = << >>
    /\ irInput = [path |-> "seq", generator |-> "ai", image |-> 0, webp |-> TRUE]
    /\ irPc = "start"
    /\ irRef = << >>
    /\ irClip = [kind |-> "none", image |-> 0]

\* The upload step of a job (_upload_with_lifecycle, upload_to_cloudinary).
\* raises: the upload call fails; keeps: the storage keeps the created_at of
\* the resource the upload overwrites.
UploadStep(job, via, raises, keeps) ==
    LET public_id == PublicIdOf(job)
        stored == cloudinary_available /\ ~raises
        old == {r \in storage : r.public_id = public_id}
    IN /\ jobs < MaxUploads
       /\ raises => cloudinary_available
       /\ keeps => (stored /\ old # {})
       /\ jobs' = jobs + 1
       /\ outage' = (outage \/ raises)
       /\ IF stored
          THEN /\ \E created_at \in IF keeps THEN {r.created_at : r \in old} ELSE {now} :
                     storage' = StoreUpload(storage, public_id, created_at)
               /\ uploads' = {u \in uploads : u.public_id # public_id}
                                \cup {[public_id |-> public_id, at |-> now, via |-> via]}
               /\ deleted' = deleted \ {public_id}
          ELSE UNCHANGED <<storage, uploads, deleted>>

\* OptimizedVideoPipeline.generate_optimized_video, from the upload on:
\* upload, then schedule_deletion(upload_result["public_id"], secure_url).
GenerateOptimizedVideo(job, raises, keeps) ==
    /\ UploadStep(job, "pipeline", raises, keeps)
    /\ pending_deletions' = PendingSet(pending_deletions,
                                       UploadResult(job, raises).public_id,
                                       now + ExpiryTicks)
    /\ timers' = timers \cup {[asset_id |-> UploadResult(job, raises).public_id,
                               asset_url |-> UploadResult(job, raises).secure_url,
                               due |-> now + ExpiryTicks,
                               serial |-> jobs + 1]}
    /\ UNCHANGED <<now, cloudinary_available, sweepDue, lastDelete, nonLifecycleVars>>

\* generate_lyric_video_pro, from the upload on: upload only.
GenerateLyricVideoPro(job, raises, keeps) ==
    /\ UploadStep(job, "task_queue", raises, keeps)
    /\ UNCHANGED <<pending_deletions, timers>>
    /\ UNCHANGED <<now, cloudinary_available, sweepDue, lastDelete, nonLifecycleVars>>

\* A _delete_after_delay thread waking up: delete_asset(asset_id, asset_url)
\* with storage_type "cloudinary". raises: the destroy call fails.
DeleteAssetAtWakeUp(timer, raises) ==
    LET destroyed == IF cloudinary_available /\ ~raises
                     THEN Destroy(storage, UrlPublicId(timer.asset_url))
                     ELSE storage
        pending == IF raises
                   THEN pending_deletions
                   ELSE PendingDel(pending_deletions, timer.asset_id)
    IN /\ timer \in timers
       /\ timer.due <= now
       /\ raises => cloudinary_available
       /\ timers' = timers \ {timer}
       /\ storage' = destroyed
       /\ pending_deletions' = pending
       /\ uploads' = {u \in uploads : u.public_id \in StoredIds(destroyed)}
       /\ deleted' = deleted \cup (StoredIds(storage) \ StoredIds(destroyed))
       /\ outage' = (outage \/ raises)
       /\ lastDelete' = [called |-> TRUE,
                         asset_id |-> timer.asset_id,
                         alreadyDeleted |-> timer.asset_id \in deleted,
                         returned |-> ~raises,
                         storageSame |-> destroyed = storage,
                         pendingSame |-> pending = pending_deletions]
       /\ UNCHANGED <<now, cloudinary_available, sweepDue, jobs, nonLifecycleVars>>

DeleteAfterDelay(raises) ==
    \E timer \in timers : DeleteAssetAtWakeUp(timer, raises)

\* The resources one listing call can return: max_results of those under
\* the prefix "lyric-videos/", or all of them when there are fewer.
ListingPages ==
    LET listed == {r \in storage : r.public_id[1] = Folder}
    IN {page \in SUBSET listed :
           Cardinality(page) = IF Cardinality(listed) > MaxResults
                               THEN MaxResults ELSE Cardinality(listed)}

\* age_hours >= self.expiry_hours
Expired(resource) == now - resource.created_at >= ExpiryTicks

\* cleanup_worker waking up: _perform_scheduled_cleanup. The listing may
\* raise (listRaises) and so may the destroy of each resource in `failed`.
\* Reading self.s3_available, which no code defines, raises AttributeError
\* after the Cloudinary pass, so _cleanup_pending_deletions is not reached.
CleanupCloudinaryAssets(listRaises, page, failed) ==
    LET expired == {r \in page : Expired(r)}
        kept == IF cloudinary_available /\ ~listRaises
                THEN storage \ (expired \ failed)
                ELSE storage
    IN /\ sweepDue <= now
       /\ listRaises => (cloudinary_available /\ page = {} /\ failed = {})
       /\ page \in ListingPages \cup {{}}
       /\ page = {} => (listRaises \/ ~cloudinary_available \/ {} \in ListingPages)
       /\ failed \subseteq expired
       /\ storage' = kept
       /\ uploads' = {u \in uploads : u.public_id \in StoredIds(kept)}
       /\ deleted' = deleted \cup (StoredIds(storage) \ StoredIds(kept))
       /\ outage' = (outage \/ listRaises \/ failed # {})
       /\ sweepDue' = now + SweepPeriod
       /\ UNCHANGED <<now, cloudinary_available, pending_deletions, timers, jobs,
                      lastDelete, nonLifecycleVars>>

PerformScheduledCleanup(listRaises) ==
    \E page \in SUBSET storage, failed \in SUBSET storage :
        CleanupCloudinaryAssets(listRaises, page, failed)

\* Time passes while every thread is asleep.
Tick ==
    /\ now < MaxTime
    /\ sweepDue > now
    /\ \A timer \in timers : timer.due > now
    /\ now' = now + 1
    /\ UNCHANGED <<cloudinary_available, storage, pending_deletions, timers, sweepDue,
                   jobs, uploads, deleted, outage, lastDelete, nonLifecycleVars>>

NextLifecycle ==
    \/ \E job \in JobIds, raises \in BOOLEAN, keeps \in BOOLEAN :
          GenerateOptimizedVideo(job, raises, keeps)
    \/ \E job \in JobIds, raises \in BOOLEAN, keeps \in BOOLEAN :
          GenerateLyricVideoPro(job, raises, keeps)
    \/ \E raises \in BOOLEAN : DeleteAfterDelay(raises)
    \/ \E listRaises \in BOOLEAN : PerformScheduledCleanup(listRaises)
    \/ Tick

SpecLifecycle == InitLifecycle /\ [][NextLifecycle]_vars

\* The deletion triggers of an upload that are due have all run.
TriggersHaveRun(u) ==
    /\ sweepDue > now
    /\ \A timer \in timers : timer.asset_id = u.public_id => timer.due > now

\* C4: with remote storage reachable, an asset uploaded at time T by either
\* entry point is gone from remote storage once the 24-hour window has passed
\* and the triggers due by then (its timer, the sweep) have run.
C4_DeletedAfterWindow ==
    ~outage =>
        \A u \in uploads :
            (now >= u.at + ExpiryTicks /\ TriggersHaveRun(u))
                => u.public_id \notin StoredIds(storage)

\* C5: every uploaded asset in remote storage has exactly one scheduled
\* deletion outstanding: one pending_deletions entry and one live timer.
C5_ExactlyOneScheduledDeletion ==
    \A u \in uploads :
        /\ Cardinality({e \in pending_deletions : e.asset_id = u.public_id}) = 1
        /\ Cardinality({timer \in timers : timer.asset_id = u.public_id}) = 1

\* C6: a delete_asset call for an asset that has already been deleted, that
\* the storage answered, returns success and leaves remote storage and the
\* pending-deletion table as they were.
C6_DeleteAssetIdempotent ==
    (lastDelete.called /\ lastDelete.alreadyDeleted /\ ~outage)
        => (lastDelete.returned /\ lastDelete.storageSame /\ lastDelete.pendingSame)

\* A step of the sweep: cleanup_worker has run one _perform_scheduled_cleanup.
SweepCycle == sweepDue' # sweepDue

\* The remote assets a sweep cycle starting now has to delete: those under
\* "lyric-videos/" that are 24 hours old or older.
DueForSweep == {r \in storage : r.public_id[1] = Folder /\ Expired(r)}

\* C28: a sweep cycle with remote storage configured issues a delete for
\* every remote asset under "lyric-videos/" of 24 hours or more, however many
\* assets the folder holds: unless a storage call has failed, each of them is
\* gone from remote storage when the cycle ends.
C28_SweepDeletesEveryExpiredAsset ==
    [][(SweepCycle /\ cloudinary_available /\ ~outage')
          => \A r \in DueForSweep : r \notin storage']_vars

\* The uploaded assets that a step of a timer or of the sweep removes from
\* remote storage (an upload removes none: it replaces the resource).
RemovedByStep ==
    {u \in uploads : u.public_id \in StoredIds(storage) /\ u.public_id \notin StoredIds(storage')}

\* C29: no asset is deleted, by a timer or by the sweep, before 24 hours have
\* passed since its (latest) upload, also when its id was uploaded or
\* scheduled more than once.
C29_NoDeletionBeforeWindow ==
    [][\A u \in RemovedByStep : now >= u.at + ExpiryTicks]_vars

\* The pending-deletion entries whose expiry lies after the time t.
ExpiringAfter(pd, t) == {e \in pd : e.expiry > t}

\* C30: when a sweep cycle ends, the pending-deletion table holds no entry
\* whose expiry is at or before the time of the cycle, and the entries with
\* a later expiry are the ones it held before.
C30_SweepExpiresPendingDeletions ==
    [][SweepCycle =>
          /\ pending_deletions' = ExpiringAfter(pending_deletions', now)
          /\ ExpiringAfter(pending_deletions', now) = ExpiringAfter(pending_deletions, now)]_vars

\* C35: the identifier a timer's delete_asset hands to the storage delete
\* call is the public_id under which the upload stored the asset: when the
\* timer of a stored asset has run and the storage has answered, that asset
\* is gone from remote storage, and no other asset is.
C35_TimerDeletesItsAsset ==
    [][\A timer \in timers \ timers' :
          /\ (cloudinary_available /\ ~outage' /\ timer.asset_id \in StoredIds(storage))
                => timer.asset_id \notin StoredIds(storage')
          /\ StoredIds(storage) \ StoredIds(storage') \subseteq {timer.asset_id}]_vars

-----------------------------------------------------------------------------
(* generate_styled_background: AI texture first, procedural generator last. *)

\* What the AI image service does when called: it returns an image, the call
\* raises, or it returns something that cannot be saved as an image.
AiBehaviours == {"image", "raises", "not_image"}

\* A style is given by the markers its lower-cased name contains.
StyleMarkers == SUBSET {"dreamy", "minimal", "cosmic"}

ProceduralFallbackNoDefault(style) ==
    IF "dreamy" \in style THEN "dreamy_varied"
    ELSE IF "minimal" \in style THEN "minimalist_varied"
    ELSE IF "cosmic" \in style THEN "dreamy_varied"
    ELSE "none"
\* generate_procedural_fallback_background: the generator chosen by style
\* name, the dreamy one by default.
generate_procedural_fallback_background(style) ==
    IF "dreamy" \in style THEN "dreamy_varied"
    ELSE IF "minimal" \in style THEN "minimalist_varied"
    ELSE IF "cosmic" \in style THEN "dreamy_varied"
    ELSE "dreamy_varied"

InitBackground ==
    /\ bgInput \in [hf_token : BOOLEAN, hf_available : BOOLEAN,
                    ai : AiBehaviours, style : StyleMarkers]
    /\ bgPc = "start"
    /\ bgOutput = "none"
    /\ entry = "pipeline"
    /\ parallel_processing = FALSE
    /\ lyrics = << >>
    /\ path = "none"
    /\ phase = "start"
    /\ scenes = << >>
    /\ previous_images = << >>
    /\ seqI = 1
    /\ attempt = 0
    /\ seqRaised = {}
    /\ task = << >>
    /\ cache = << >>
    /\ recency = << >>
    /\ lastOp = [op |-> "none", key |-> NoKey, evicted |-> {}, expected |-> {}]
    /\ tpc = [t \in 1..NumThreads |-> "idle"]
    /\ targ = [t \in 1..NumThreads |-> [key |-> NoKey, val |-> 0]]
    /\ keyError = FALSE
    /\ lyric = [text |-> << >>, duration |-> [present |-> FALSE, num |-> 0, den |-> 1]]
    /\ bpm = 0
    /\ called = "none"
    /\ duration = [num |-> 0, den |-> 1]
    /\ now = 0
    /\ cloudinary_available = TRUE
    /\ storage = {}
    /\ pending_deletions = {}
    /\ timers = {}
    /\ sweepDue = SweepPeriod
    /\ jobs = 0
    /\ uploads = {}
    /\ deleted = {}
    /\ outage = FALSE
    /\ lastDelete = [called |-> FALSE, asset_id |-> << >>, alreadyDeleted |-> FALSE,
                     returned |-> FALSE, storageSame |-> TRUE, pendingSame |-> TRUE]
    /\ jobData = [entry |-> "pipeline", has_lyrics |-> FALSE, has_songTitle |-> FALSE,
                  webhook_url |-> FALSE, lyric_count |-> 0, motion_interpolation |-> FALSE]
    /\ jobPc = "start"
    /\ jobScenes = 0
    /\ jobSteps = << >>
    /\ jobFile = "none"
    /\ jobResult = [success |-> FALSE, error |-> "none", secure_url |-> [scheme |-> "none", path |-> << >>, ext |-> "none"],
                    public_id |-> << >>, upload_error |-> FALSE, expires |-> FALSE]
    /\ jobWebhooks = {}
    /\ dInput = [entry |-> "none", tag |-> [prefix |-> "", body |-> "unknown", upper |-> FALSE], style |-> "none"]
    /\ dPc = "start"
    /\ dOutcome = [kind |-> "none", fn |-> "none", seconds10 |-> 0]
    /\ rInput = [style |-> "dreamy_ethereal", durations |-> << >>]
    /\ rPc = "background"
    /\ rBg = [kind |-> "none", palette |-> "none", duration |-> 0]
    /\ rClips = << >>
    /\ swPc = "sleeping"
    /\ swSlept = 0
    /\ swErrors = {}
    /\ swCycles = 0
    /\ mClip = [lib |-> "none", fn |-> "none", duration |-> 0, intensity |-> "low"]
    /\ mSamples = << >>
    /\ suInput = [url |-> [scheme |-> "https", netloc |-> "res.cloudinary.com", path |-> "/v/a.mp4", query |-> << >>],
                  expiry_hours |-> 24, storage_type |-> "cloudinary", time |-> 0]
    /\ suPc = "start"
    /\ suOutput = [scheme |-> "https", netloc |-> "res.cloudinary.com", path |-> "/v/a.mp4", query |-> << >>]
    /\ qCalls = << >>
    /\ plLock = "free"
    /\ plPc = [sweep |-> "sleeping", timer |-> << >>]
    /\ plTable = {}
    /\ plLast = [op |-> "none", thread |-> "none", holder |-> "free"]
    /\ aiService = << >>
    /\ aiPc = << >>
    /\ aiFanIn = "waiting"
    /\ uqInput = [candidate |-> 0, accepted |-> << >>]
    /\ uqPc = "start"
    /\ uqResult = TRUE
    /\ beInput = [clips |-> << >>, batch_size |-> 1]
    /\ beI = 0
    /\ bePc = "loop"
    /\ beSegments = << >>
    /\ rngState = 0
    /\ rwText = << >>
    /\ rwPc = << >>
    /\ rwOut = << >>
    /\ irInput = [path |-> "seq", generator |-> "ai", image |-> 0, webp |-> TRUE]
    /\ irPc = "start"
    /\ irRef = << >>
    /\ irClip = [kind |-> "none", image |-> 0]

\* if hf_token and HF_INFERENCE_AVAILABLE: try the AI texture; any exception
\* of the attempt is caught and logged.
AiTextureStep ==
    /\ bgPc = "start"
    /\ bgInput.hf_token /\ bgInput.hf_available
    /\ IF bgInput.ai = "image"
       THEN bgPc' = "returned" /\ bgOutput' = "ai_texture"
       ELSE bgPc' = "fallback" /\ UNCHANGED bgOutput
    /\ UNCHANGED <<bgInput, nonBackgroundVars>>

\* No token or no inference library: the AI step is skipped.
AiTextureSkipped ==
    /\ bgPc = "start"
    /\ ~(bgInput.hf_token /\ bgInput.hf_available)
    /\ bgPc' = "fallback"
    /\ UNCHANGED <<bgInput, bgOutput, nonBackgroundVars>>

\* return generate_procedural_fallback_background(lyric, style_profile)
ProceduralFallbackStep ==
    /\ bgPc = "fallback"
    /\ bgOutput' = generate_procedural_fallback_background(bgInput.style)
    /\ bgPc' = "returned"
    /\ UNCHANGED <<bgInput, nonBackgroundVars>>

NextBackground ==
    \/ AiTextureStep
    \/ AiTextureSkipped
    \/ ProceduralFallbackStep

SpecBackground == InitBackground /\ [][NextBackground]_vars

\* C11: generate_styled_background never raises and, whatever the AI image
\* service does (no credentials, no library, the call raises or returns
\* garbage), what it returns is a background; until it has returned, a next
\* step is always possible.
C11_AlwaysABackground ==
    /\ bgPc # "raised"
    /\ bgPc = "returned" => bgOutput # "none"
    /\ bgPc # "returned" => ENABLED NextBackground

\* C11 witness: the AI call was made and raised, and the procedural
\* generator supplied the background of a style matching no marker.
C11_Witness ==
    /\ bgPc = "returned"
    /\ bgInput.hf_token /\ bgInput.hf_available /\ bgInput.ai = "raises"
    /\ bgInput.style = {}
    /\ bgOutput = "dreamy_varied"

-----------------------------------------------------------------------------
(* One job through an entry point: generate_lyric_video_pro (task queue) or
   OptimizedVideoPipeline.generate_optimized_video (pipeline). *)

MaxJobLyrics == 2

JobPayloads ==
    [entry : {"pipeline", "task_queue"}, has_lyrics : BOOLEAN, has_songTitle : BOOLEAN,
     webhook_url : BOOLEAN, lyric_count : 0..MaxJobLyrics, motion_interpolation : BOOLEAN]

InitJob ==
    /\ jobData \in {d \in JobPayloads :
                      /\ ~d.has_lyrics => d.lyric_count = 0
                      /\ d.entry = "task_queue" => ~d.motion_interpolation}
    /\ cloudinary_available \in BOOLEAN
    /\ jobPc = "start"
    /\ jobScenes = 0
    /\ jobSteps = << >>
    /\ jobFile = "none"
    /\ jobResult = [success |-> FALSE, error |-> "none",
                    secure_url |-> [scheme |-> "none", path |-> << >>, ext |-> "none"],
                    public_id |-> << >>, upload_error |-> FALSE, expires |-> FALSE]
    /\ jobWebhooks = {}
    /\ entry = "pipeline"
    /\ parallel_processing = FALSE
    /\ lyrics = << >>
    /\ path = "none"
    /\ phase = "start"
    /\ scenes = << >>
    /\ previous_images = << >>
    /\ seqI = 1
    /\ attempt = 0
    /\ seqRaised = {}
    /\ task = << >>
    /\ cache = << >>
    /\ recency = << >>
    /\ lastOp = [op |-> "none", key |-> NoKey, evicted |-> {}, expected |-> {}]
    /\ tpc = [t \in 1..NumThreads |-> "idle"]
    /\ targ = [t \in 1..NumThreads |-> [key |-> NoKey, val |-> 0]]
    /\ keyError = FALSE
    /\ lyric = [text |-> << >>, duration |-> [present |-> FALSE, num |-> 0, den |-> 1]]
    /\ bpm = 0
    /\ called = "none"
    /\ duration = [num |-> 0, den |-> 1]
    /\ now = 0
    /\ storage = {}
    /\ pending_deletions = {}
    /\ timers = {}
    /\ sweepDue = SweepPeriod
    /\ jobs = 0
    /\ uploads = {}
    /\ deleted = {}
    /\ outage = FALSE
    /\ lastDelete = [called |-> FALSE, asset_id |-> << >>, alreadyDeleted |-> FALSE,
                     returned |-> FALSE, storageSame |-> TRUE, pendingSame |-> TRUE]
    /\ bgInput = [hf_token |-> FALSE, hf_available |-> FALSE, ai |-> "raises", style |-> {}]
    /\ bgPc = "start"
    /\ bgOutput = "none"
    /\ dInput = [entry |-> "none", tag |-> [prefix |-> "", body |-> "unknown", upper |-> FALSE], style |-> "none"]
    /\ dPc = "start"
    /\ dOutcome = [kind |-> "none", fn |-> "none", seconds10 |-> 0]
    /\ rInput = [style |-> "dreamy_ethereal", durations |-> << >>]
    /\ rPc = "background"
    /\ rBg = [kind |-> "none", palette |-> "none", duration |-> 0]
    /\ rClips = << >>
    /\ swPc = "sleeping"
    /\ swSlept = 0
    /\ swErrors = {}
    /\ swCycles = 0
    /\ mClip = [lib |-> "none", fn |-> "none", duration |-> 0, intensity |-> "low"]
    /\ mSamples = << >>
    /\ suInput = [url |-> [scheme |-> "https", netloc |-> "res.cloudinary.com", path |-> "/v/a.mp4", query |-> << >>],
                  expiry_hours |-> 24, storage_type |-> "cloudinary", time |-> 0]
    /\ suPc = "start"
    /\ suOutput = [scheme |-> "https", netloc |-> "res.cloudinary.com", path |-> "/v/a.mp4", query |-> << >>]
    /\ qCalls = << >>
    /\ plLock = "free"
    /\ plPc = [sweep |-> "sleeping", timer |-> << >>]
    /\ plTable = {}
    /\ plLast = [op |-> "none", thread |-> "none", holder |-> "free"]
    /\ aiService = << >>
    /\ aiPc = << >>
    /\ aiFanIn = "waiting"
    /\ uqInput = [candidate |-> 0, accepted |-> << >>]
    /\ uqPc = "start"
    /\ uqResult = TRUE
    /\ beInput = [clips |-> << >>, batch_size |-> 1]
    /\ beI = 0
    /\ bePc = "loop"
    /\ beSegments = << >>
    /\ rngState = 0
    /\ rwText = << >>
    /\ rwPc = << >>
    /\ rwOut = << >>
    /\ irInput = [path |-> "seq", generator |-> "ai", image |-> 0, webp |-> TRUE]
    /\ irPc = "start"
    /\ irRef = << >>
    /\ irClip = [kind |-> "none", image |-> 0]

\* The except clause of the entry point: generate_lyric_video_pro posts a
\* "failed" webhook when the payload has a webhook_url and re-raises;
\* generate_optimized_video logs and re-raises.
JobFails(error) ==
    /\ jobPc' = "failed"
    /\ jobResult' = [jobResult EXCEPT !.error = error]
    /\ jobWebhooks' = IF jobData.entry = "task_queue" /\ jobData.webhook_url
                      THEN jobWebhooks \cup {"failed"} ELSE jobWebhooks

\* generate_lyric_video_pro: validate_input_data, then select_style_profile.
\* generate_optimized_video: _select_style_profile and _get_optimal_resolution,
\* with no validation.
JobStart ==
    /\ jobPc = "start"
    /\ IF jobData.entry = "task_queue" /\ ~(jobData.has_lyrics /\ jobData.has_songTitle)
       THEN JobFails("ValueError")
       ELSE jobPc' = "styled" /\ UNCHANGED <<jobResult, jobWebhooks>>
    /\ UNCHANGED <<jobData, jobScenes, jobSteps, jobFile, nonJobVars>>

\* generate_styled_scenes / _generate_optimized_scenes: data["lyrics"] raises
\* KeyError when the payload has no lyrics; a lyric whose synthesis raises
\* (or, in parallel, is not unique) yields no scene.
JobGenerateScenes ==
    /\ jobPc = "styled"
    /\ IF ~jobData.has_lyrics
       THEN /\ JobFails("KeyError")
            /\ UNCHANGED <<jobScenes, jobSteps>>
       ELSE /\ \E kept \in 0..jobData.lyric_count : jobScenes' = kept
            /\ jobSteps' = Append(jobSteps, "scenes")
            /\ jobPc' = "scenes"
            /\ UNCHANGED <<jobResult, jobWebhooks>>
    /\ UNCHANGED <<jobData, jobFile, nonJobVars>>

\* create_professional_video / _create_optimized_video. The task queue raises
\* ValueError without scenes; the pipeline then encodes nothing and still
\* returns the output path. With motion_interpolation the pipeline calls
\* self.interpolator.smooth_animation, which MotionInterpolator does not
\* have. encodeRaises: write_videofile raises.
JobCreateVideo(encodeRaises) ==
    /\ jobPc = "scenes"
    /\ IF jobScenes = 0
       THEN IF jobData.entry = "task_queue"
            THEN JobFails("ValueError") /\ UNCHANGED <<jobSteps, jobFile>>
            ELSE /\ ~encodeRaises
                 /\ jobPc' = "encoded"
                 /\ UNCHANGED <<jobSteps, jobFile, jobResult, jobWebhooks>>
       ELSE IF jobData.motion_interpolation
            THEN /\ ~encodeRaises
                 /\ JobFails("AttributeError")
                 /\ jobSteps' = Append(jobSteps, "render")
                 /\ UNCHANGED jobFile
            ELSE IF encodeRaises
                 THEN /\ JobFails("EncodingError")
                      /\ jobSteps' = Append(jobSteps, "render")
                      /\ UNCHANGED jobFile
                 ELSE /\ jobSteps' = Append(Append(jobSteps, "render"), "encode")
                      /\ jobFile' = "exists"
                      /\ jobPc' = "encoded"
                      /\ UNCHANGED <<jobResult, jobWebhooks>>
    /\ UNCHANGED <<jobData, jobScenes, nonJobVars>>

\* upload_to_cloudinary / _upload_with_lifecycle. uploadRaises: the upload
\* call raises, as it must when there is no file to upload.
JobUpload(uploadRaises) ==
    /\ jobPc = "encoded"
    /\ uploadRaises => cloudinary_available
    /\ (cloudinary_available /\ jobFile # "exists") => uploadRaises
    /\ jobSteps' = Append(jobSteps, "upload")
    /\ jobResult' = [jobResult EXCEPT
                        !.secure_url = UploadResult("job1", uploadRaises).secure_url,
                        !.public_id = UploadResult("job1", uploadRaises).public_id,
                        !.upload_error = uploadRaises]
    /\ jobPc' = "uploaded"
    /\ UNCHANGED <<jobData, jobScenes, jobFile, jobWebhooks, nonJobVars>>

\* The rest of the entry point. Pipeline: signed URL (an expiry is added
\* only with cloudinary_available), cleanup_temp_files, schedule_deletion.
\* Task queue: cleanup_temp_files, "completed" webhook.
JobFinish ==
    /\ jobPc = "uploaded"
    /\ jobFile' = IF jobFile = "exists" THEN "removed" ELSE jobFile
    /\ jobSteps' = IF jobData.entry = "pipeline"
                   THEN Append(jobSteps, "schedule") ELSE jobSteps
    /\ jobResult' = [jobResult EXCEPT
                        !.success = TRUE,
                        !.expires = (jobData.entry = "pipeline" /\ cloudinary_available)]
    /\ jobWebhooks' = IF jobData.entry = "task_queue" /\ jobData.webhook_url
                      THEN jobWebhooks \cup {"completed"} ELSE jobWebhooks
    /\ jobPc' = "returned"
    /\ UNCHANGED <<jobData, jobScenes, nonJobVars>>

NextJob ==
    \/ JobStart
    \/ JobGenerateScenes
    \/ \E encodeRaises \in BOOLEAN : JobCreateVideo(encodeRaises)
    \/ \E uploadRaises \in BOOLEAN : JobUpload(uploadRaises)
    \/ JobFinish

SpecJob == InitJob /\ [][NextJob]_vars

PayloadIncomplete == ~jobData.has_lyrics \/ ~jobData.has_songTitle

\* C12: a payload without `lyrics` or without `songTitle` is rejected before
\* any work: no scene generation, rendering, encoding or upload is done for
\* it and the job does not return a result.
C12_IncompletePayloadRejected ==
    PayloadIncomplete => (jobSteps = << >> /\ jobPc # "returned")

\* C13: an upload happens only after encoding has produced the output file,
\* and a job whose encoding failed fails to the caller without upload and
\* without scheduled deletion, with a "failed" notification when the payload
\* has a webhook URL.
C13_NoUploadWithoutEncodedFile ==
    /\ "upload" \in Range(jobSteps) => "encode" \in Range(jobSteps)
    /\ jobResult.error = "EncodingError" =>
          /\ jobPc = "failed"
          /\ "upload" \notin Range(jobSteps)
          /\ "schedule" \notin Range(jobSteps)
          /\ jobData.webhook_url => "failed" \in jobWebhooks

UploadFellBack == ~cloudinary_available \/ jobResult.upload_error

\* C14: when the upload raises or the credentials are missing, the upload
\* step returns a file:// URL with a local public_id, the job goes on and
\* its result reports success.
C14_UploadFallsBackToLocalFile ==
    /\ "upload" \in Range(jobSteps) => jobPc \in {"uploaded", "returned"}
    /\ jobPc = "uploaded" => ENABLED JobFinish
    /\ jobPc = "returned" => jobResult.success
    /\ ("upload" \in Range(jobSteps) /\ UploadFellBack) =>
          /\ jobResult.secure_url.scheme = "file"
          /\ jobResult.public_id \in {<<"local-test">>, <<"local-fallback">>}

\* C14 witness: a job whose upload raised has returned a successful result
\* that refers to the local file.
C14_Witness ==
    /\ jobPc = "returned"
    /\ jobResult.upload_error
    /\ jobResult.success
    /\ jobResult.public_id = <<"local-fallback">>

\* C36: when a successful job result refers to a local file (the upload fell
\* back to a local-file reference) and the file was encoded, that file still
\* exists at the moment the result is returned.
C36_LocalFileResultHasItsFile ==
    (jobPc = "returned" /\ jobResult.success /\ jobResult.secure_url.scheme = "file"
       /\ "encode" \in Range(jobSteps))
        => jobFile = "exists"

-----------------------------------------------------------------------------
(* Style profiles and animation dispatch *)

\* An animation tag: a string made of a namespacing prefix ("", "ANIMATION_"
\* or "PHYSICS_") and a body, the body all in upper case or all in lower case.
\* The body is kept in lower case, `upper` tells how the tag spells it.
Tag(prefix, body, upper) == [prefix |-> prefix, body |-> body, upper |-> upper]

\* if animation_tag.startswith("ANIMATION_"):
\*     animation_tag = animation_tag.replace("ANIMATION_", "").lower()
StripPrefix(tag) ==
    IF tag.prefix = "ANIMATION_" THEN Tag("", tag.body, FALSE) ELSE tag

\* STYLE_PROFILES: the animation_tag and color_tag of each profile.
STYLE_PROFILES ==
    [dreamy_ethereal |-> [animation_tag |-> Tag("ANIMATION_", "wobble_spring", TRUE), color_tag |-> "COLOR_PASTEL_PEACH"],
     minimalist_typography |-> [animation_tag |-> Tag("ANIMATION_", "slide_snap", TRUE), color_tag |-> "COLOR_MONOCHROME_HIGH"],
     cyberpunk_glitch |-> [animation_tag |-> Tag("ANIMATION_", "shatter_collision", TRUE), color_tag |-> "COLOR_NEON_DARK"],
     vintage_film |-> [animation_tag |-> Tag("ANIMATION_", "jitter_damp", TRUE), color_tag |-> "COLOR_VINTAGE_FADE"],
     lofi_aesthetic |-> [animation_tag |-> Tag("ANIMATION_", "lofi_wobble", TRUE), color_tag |-> "COLOR_LOFI"],
     kinetic_typography |-> [animation_tag |-> Tag("ANIMATION_", "type_pulse", TRUE), color_tag |-> "COLOR_HIGH_CONTRAST"],
     particle_abstract |-> [animation_tag |-> Tag("ANIMATION_", "particle_decay", TRUE), color_tag |-> "COLOR_GRADIENT_DARK"],
     brutalist_bold |-> [animation_tag |-> Tag("ANIMATION_", "slide_inertia", TRUE), color_tag |-> "COLOR_MONOCHROME_LOW"],
     floating_dream |-> [animation_tag |-> Tag("ANIMATION_", "float_fade_physics", TRUE), color_tag |-> "COLOR_PASTEL_BLUE"],
     glitch_core |-> [animation_tag |-> Tag("ANIMATION_", "shatter_shift", TRUE), color_tag |-> "COLOR_DIGITAL"]]

StyleNames == DOMAIN STYLE_PROFILES

\* ANIMATION_FUNCTION_MAP: sixteen lower-case keys and two keys spelt with the
\* prefix in upper case.
ANIMATION_FUNCTION_MAP ==
    (Tag("", "float_fade", FALSE) :> "animate_simple_fade")
    @@ (Tag("", "slide", FALSE) :> "animate_slide_snap")
    @@ (Tag("", "typewriter", FALSE) :> "animate_type_flicker")
    @@ (Tag("", "bounce", FALSE) :> "animate_wobble_pop")
    @@ (Tag("", "glitch", FALSE) :> "animate_shatter_shift")
    @@ (Tag("", "particles", FALSE) :> "animate_particle_dissolve")
    @@ (Tag("", "float_fade_physics", FALSE) :> "animate_simple_fade")
    @@ (Tag("", "jitter_damp", FALSE) :> "animate_jitter_shake")
    @@ (Tag("", "type_pulse", FALSE) :> "animate_type_flicker")
    @@ (Tag("", "wobble_spring", FALSE) :> "animate_wobble_pop")
    @@ (Tag("", "shatter_collision", FALSE) :> "animate_shatter_shift")
    @@ (Tag("", "slide_inertia", FALSE) :> "animate_slide_snap")
    @@ (Tag("", "depth_gravity", FALSE) :> "animate_depth_fluid")
    @@ (Tag("", "lofi_wobble", FALSE) :> "animate_type_flicker")
    @@ (Tag("", "particle_decay", FALSE) :> "animate_particle_dissolve")
    @@ (Tag("", "abstract_breath", FALSE) :> "animate_pulse_morph")
    @@ (Tag("ANIMATION_", "float_fade", TRUE) :> "animate_simple_fade")
    @@ (Tag("ANIMATION_", "wobble_pop", TRUE) :> "animate_wobble_pop")

\* PHYSICS_ANIMATIONS: the function of each key.
PHYSICS_ANIMATIONS ==
    (Tag("PHYSICS_", "float_fade", TRUE) :> "animate_float_fade_sine")
    @@ (Tag("PHYSICS_", "jitter_shake", TRUE) :> "animate_jitter_damp")
    @@ (Tag("PHYSICS_", "wipe_type", TRUE) :> "animate_type_pulse")
    @@ (Tag("PHYSICS_", "wobble_pop", TRUE) :> "animate_wobble_spring")
    @@ (Tag("PHYSICS_", "shatter_shift", TRUE) :> "animate_shatter_collision")
    @@ (Tag("PHYSICS_", "slide_snap", TRUE) :> "animate_slide_inertia")
    @@ (Tag("PHYSICS_", "depth_fluid", TRUE) :> "animate_depth_gravity")
    @@ (Tag("PHYSICS_", "type_flicker", TRUE) :> "animate_lofi_wobble")
    @@ (Tag("PHYSICS_", "particle_dissolve", TRUE) :> "animate_particle_decay")
    @@ (Tag("PHYSICS_", "pulse_morph", TRUE) :> "animate_abstract_breath")

\* The tags the entry points are called with: every body that occurs in a
\* registry or a profile, and one that occurs nowhere, under each prefix and
\* in each case.
TagBodies ==
    {k.body : k \in DOMAIN ANIMATION_FUNCTION_MAP} \cup {k.body : k \in DOMAIN PHYSICS_ANIMATIONS}
        \cup {STYLE_PROFILES[s].animation_tag.body : s \in StyleNames} \cup {"unknown"}

Tags == [prefix : {"", "ANIMATION_", "PHYSICS_"}, body : TagBodies, upper : BOOLEAN]

DispatchEntries == {"apply_professional_animation", "smooth_animation", "apply_physics_animation"}

Animated(fn) == [kind |-> "animated", fn |-> fn, seconds10 |-> 0]
\* fade-in and fade-out of seconds10 tenths of a second
Fade(seconds10) == [kind |-> "fade", fn |-> "none", seconds10 |-> seconds10]
Raised == [kind |-> "raised", fn |-> "none", seconds10 |-> 0]

InitDispatch ==
    /\ \E e \in DispatchEntries :
          \/ \E t \in Tags : dInput = [entry |-> e, tag |-> t, style |-> "none"]
          \/ \E s \in StyleNames :
                dInput = [entry |-> e, tag |-> STYLE_PROFILES[s].animation_tag, style |-> s]
    /\ dPc = "start"
    /\ dOutcome = [kind |-> "none", fn |-> "none", seconds10 |-> 0]
    /\ entry = "pipeline"
    /\ parallel_processing = FALSE
    /\ lyrics = << >>
    /\ path = "none"
    /\ phase = "start"
    /\ scenes = << >>
    /\ previous_images = << >>
    /\ seqI = 1
    /\ attempt = 0
    /\ seqRaised = {}
    /\ task = << >>
    /\ cache = << >>
    /\ recency = << >>
    /\ lastOp = [op |-> "none", key |-> NoKey, evicted |-> {}, expected |-> {}]
    /\ tpc = [t \in 1..NumThreads |-> "idle"]
    /\ targ = [t \in 1..NumThreads |-> [key |-> NoKey, val |-> 0]]
    /\ keyError = FALSE
    /\ lyric = [text |-> << >>, duration |-> [present |-> FALSE, num |-> 0, den |-> 1]]
    /\ bpm = 0
    /\ called = "none"
    /\ duration = [num |-> 0, den |-> 1]
    /\ now = 0
    /\ cloudinary_available = TRUE
    /\ storage = {}
    /\ pending_deletions = {}
    /\ timers = {}
    /\ sweepDue = SweepPeriod
    /\ jobs = 0
    /\ uploads = {}
    /\ deleted = {}
    /\ outage = FALSE
    /\ lastDelete = [called |-> FALSE, asset_id |-> << >>, alreadyDeleted |-> FALSE,
                     returned |-> FALSE, storageSame |-> TRUE, pendingSame |-> TRUE]
    /\ bgInput = [hf_token |-> FALSE, hf_available |-> FALSE, ai |-> "raises", style |-> {}]
    /\ bgPc = "start"
    /\ bgOutput = "none"
    /\ jobData = [entry |-> "pipeline", has_lyrics |-> FALSE, has_songTitle |-> FALSE,
                  webhook_url |-> FALSE, lyric_count |-> 0, motion_interpolation |-> FALSE]
    /\ jobPc = "start"
    /\ jobScenes = 0
    /\ jobSteps = << >>
    /\ jobFile = "none"
    /\ jobResult = [success |-> FALSE, error |-> "none", secure_url |-> [scheme |-> "none", path |-> << >>, ext |-> "none"],
                    public_id |-> << >>, upload_error |-> FALSE, expires |-> FALSE]
    /\ jobWebhooks = {}
    /\ rInput = [style |-> "dreamy_ethereal", durations |-> << >>]
    /\ rPc = "background"
    /\ rBg = [kind |-> "none", palette |-> "none", duration |-> 0]
    /\ rClips = << >>
    /\ swPc = "sleeping"
    /\ swSlept = 0
    /\ swErrors = {}
    /\ swCycles = 0
    /\ mClip = [lib |-> "none", fn |-> "none", duration |-> 0, intensity |-> "low"]
    /\ mSamples = << >>
    /\ suInput = [url |-> [scheme |-> "https", netloc |-> "res.cloudinary.com", path |-> "/v/a.mp4", query |-> << >>],
                  expiry_hours |-> 24, storage_type |-> "cloudinary", time |-> 0]
    /\ suPc = "start"
    /\ suOutput = [scheme |-> "https", netloc |-> "res.cloudinary.com", path |-> "/v/a.mp4", query |-> << >>]
    /\ qCalls = << >>
    /\ plLock = "free"
    /\ plPc = [sweep |-> "sleeping", timer |-> << >>]
    /\ plTable = {}
    /\ plLast = [op |-> "none", thread |-> "none", holder |-> "free"]
    /\ aiService = << >>
    /\ aiPc = << >>
    /\ aiFanIn = "waiting"
    /\ uqInput = [candidate |-> 0, accepted |-> << >>]
    /\ uqPc = "start"
    /\ uqResult = TRUE
    /\ beInput = [clips |-> << >>, batch_size |-> 1]
    /\ beI = 0
    /\ bePc = "loop"
    /\ beSegments = << >>
    /\ rngState = 0
    /\ rwText = << >>
    /\ rwPc = << >>
    /\ rwOut = << >>
    /\ irInput = [path |-> "seq", generator |-> "ai", image |-> 0, webp |-> TRUE]
    /\ irPc = "start"
    /\ irRef = << >>
    /\ irClip = [kind |-> "none", image |-> 0]

\* apply_professional_animation: the lookup and the call are inside try;
\* a registry function that raises and an unknown tag both get
\* text_clip.fadein(0.5).fadeout(0.5).
ApplyProfessionalAnimation(funcRaises) ==
    /\ dPc = "start"
    /\ dInput.entry = "apply_professional_animation"
    /\ LET animation_tag == StripPrefix(dInput.tag)
       IN dOutcome' = IF animation_tag \in DOMAIN ANIMATION_FUNCTION_MAP /\ ~funcRaises
                      THEN Animated(ANIMATION_FUNCTION_MAP[animation_tag])
                      ELSE Fade(5)
    /\ dPc' = "done"
    /\ UNCHANGED dInput
    /\ UNCHANGED nonDispatchVars

\* smooth_animation (interpolation "linear", as every caller leaves it): no
\* try around the registry function; an unknown tag gets
\* with_effects([FadeIn(0.3), FadeOut(0.3)]).
SmoothAnimation(funcRaises) ==
    /\ dPc = "start"
    /\ dInput.entry = "smooth_animation"
    /\ LET animation_tag == StripPrefix(dInput.tag)
       IN dOutcome' = IF animation_tag \in DOMAIN ANIMATION_FUNCTION_MAP
                      THEN IF funcRaises THEN Raised
                           ELSE Animated(ANIMATION_FUNCTION_MAP[animation_tag])
                      ELSE Fade(3)
    /\ dPc' = "done"
    /\ UNCHANGED dInput
    /\ UNCHANGED nonDispatchVars

\* apply_physics_animation: get_physics_animation looks the tag up as it is
\* and raises ValueError when it is not a key.
ApplyPhysicsAnimation(funcRaises) ==
    /\ dPc = "start"
    /\ dInput.entry = "apply_physics_animation"
    /\ dOutcome' = IF dInput.tag \in DOMAIN PHYSICS_ANIMATIONS /\ ~funcRaises
                   THEN Animated(PHYSICS_ANIMATIONS[dInput.tag])
                   ELSE Raised
    /\ dPc' = "done"
    /\ UNCHANGED dInput
    /\ UNCHANGED nonDispatchVars

NextDispatch ==
    \/ \E funcRaises \in BOOLEAN : ApplyProfessionalAnimation(funcRaises)
    \/ \E funcRaises \in BOOLEAN : SmoothAnimation(funcRaises)
    \/ \E funcRaises \in BOOLEAN : ApplyPhysicsAnimation(funcRaises)

SpecDispatch == InitDispatch /\ [][NextDispatch]_vars

\* The tag is registered for the entry point: it is a key of the registry the
\* entry point uses, as it is or after the prefix is stripped.
Registered(e, tag) ==
    IF e = "apply_physics_animation"
    THEN tag \in DOMAIN PHYSICS_ANIMATIONS
    ELSE tag \in DOMAIN ANIMATION_FUNCTION_MAP \/ StripPrefix(tag) \in DOMAIN ANIMATION_FUNCTION_MAP

\* C18: a tag that is not registered makes no dispatch entry point raise; the
\* content gets the fade-in/fade-out fallback of 0.5 s.
C18_UnknownTagGetsHalfSecondFade ==
    (dPc = "done" /\ ~Registered(dInput.entry, dInput.tag)) => dOutcome = Fade(5)

\* C19: the animation tag of every style profile resolves to a registry
\* function: a scene that carries a profile's tag is animated by a registry
\* function and never gets the unknown-tag fallback.
C19_ProfileTagsAreRegistered ==
    (dPc = "done" /\ dInput.style # "none" /\ dInput.entry # "apply_physics_animation")
        => /\ StripPrefix(dInput.tag) \in DOMAIN ANIMATION_FUNCTION_MAP
           /\ dOutcome # Fade(3)
           /\ dOutcome = Fade(5) => dInput.entry = "apply_professional_animation"

-----------------------------------------------------------------------------
(* Rendering the scenes of one job *)

MaxRenderScenes == 2
MaxSceneDuration == 2

\* COLOR_PALETTE_MAP: the background and accent colours of each palette.
COLOR_PALETTE_MAP ==
    [COLOR_PASTEL_PEACH |-> [background |-> "#F5F5F5", accent |-> "#FFF5EE"],
     COLOR_MONOCHROME_HIGH |-> [background |-> "#F5F5F5", accent |-> "#000000"]]

\* colors = COLOR_PALETTE_MAP.get(color_tag, COLOR_PALETTE_MAP["COLOR_PASTEL_PEACH"])
PaletteOf(color_tag) ==
    IF color_tag \in DOMAIN COLOR_PALETTE_MAP THEN color_tag ELSE "COLOR_PASTEL_PEACH"

\* create_gradient_background: a vertical gradient from the palette's
\* background colour to its accent colour, as a clip of the given duration.
create_gradient_background(d, color_tag) ==
    [kind |-> "gradient", palette |-> PaletteOf(color_tag), duration |-> d]

ImageClipOf(d) == [kind |-> "image", palette |-> "none", duration |-> d]

InitRender ==
    /\ \E s \in StyleNames, ds \in SeqsUpTo(1..MaxSceneDuration, MaxRenderScenes) :
          /\ ds # << >>
          /\ rInput = [style |-> s, durations |-> ds]
    /\ rPc = "background"
    /\ rBg = [kind |-> "none", palette |-> "none", duration |-> 0]
    /\ rClips = << >>
    /\ entry = "pipeline"
    /\ parallel_processing = FALSE
    /\ lyrics = << >>
    /\ path = "none"
    /\ phase = "start"
    /\ scenes = << >>
    /\ previous_images = << >>
    /\ seqI = 1
    /\ attempt = 0
    /\ seqRaised = {}
    /\ task = << >>
    /\ cache = << >>
    /\ recency = << >>
    /\ lastOp = [op |-> "none", key |-> NoKey, evicted |-> {}, expected |-> {}]
    /\ tpc = [t \in 1..NumThreads |-> "idle"]
    /\ targ = [t \in 1..NumThreads |-> [key |-> NoKey, val |-> 0]]
    /\ keyError = FALSE
    /\ lyric = [text |-> << >>, duration |-> [present |-> FALSE, num |-> 0, den |-> 1]]
    /\ bpm = 0
    /\ called = "none"
    /\ duration = [num |-> 0, den |-> 1]
    /\ now = 0
    /\ cloudinary_available = TRUE
    /\ storage = {}
    /\ pending_deletions = {}
    /\ timers = {}
    /\ sweepDue = SweepPeriod
    /\ jobs = 0
    /\ uploads = {}
    /\ deleted = {}
    /\ outage = FALSE
    /\ lastDelete = [called |-> FALSE, asset_id |-> << >>, alreadyDeleted |-> FALSE,
                     returned |-> FALSE, storageSame |-> TRUE, pendingSame |-> TRUE]
    /\ bgInput = [hf_token |-> FALSE, hf_available |-> FALSE, ai |-> "raises", style |-> {}]
    /\ bgPc = "start"
    /\ bgOutput = "none"
    /\ jobData = [entry |-> "pipeline", has_lyrics |-> FALSE, has_songTitle |-> FALSE,
                  webhook_url |-> FALSE, lyric_count |-> 0, motion_interpolation |-> FALSE]
    /\ jobPc = "start"
    /\ jobScenes = 0
    /\ jobSteps = << >>
    /\ jobFile = "none"
    /\ jobResult = [success |-> FALSE, error |-> "none", secure_url |-> [scheme |-> "none", path |-> << >>, ext |-> "none"],
                    public_id |-> << >>, upload_error |-> FALSE, expires |-> FALSE]
    /\ jobWebhooks = {}
    /\ dInput = [entry |-> "none", tag |-> [prefix |-> "", body |-> "unknown", upper |-> FALSE], style |-> "none"]
    /\ dPc = "start"
    /\ dOutcome = [kind |-> "none", fn |-> "none", seconds10 |-> 0]
    /\ swPc = "sleeping"
    /\ swSlept = 0
    /\ swErrors = {}
    /\ swCycles = 0
    /\ mClip = [lib |-> "none", fn |-> "none", duration |-> 0, intensity |-> "low"]
    /\ mSamples = << >>
    /\ suInput = [url |-> [scheme |-> "https", netloc |-> "res.cloudinary.com", path |-> "/v/a.mp4", query |-> << >>],
                  expiry_hours |-> 24, storage_type |-> "cloudinary", time |-> 0]
    /\ suPc = "start"
    /\ suOutput = [scheme |-> "https", netloc |-> "res.cloudinary.com", path |-> "/v/a.mp4", query |-> << >>]
    /\ qCalls = << >>
    /\ plLock = "free"
    /\ plPc = [sweep |-> "sleeping", timer |-> << >>]
    /\ plTable = {}
    /\ plLast = [op |-> "none", thread |-> "none", holder |-> "free"]
    /\ aiService = << >>
    /\ aiPc = << >>
    /\ aiFanIn = "waiting"
    /\ uqInput = [candidate |-> 0, accepted |-> << >>]
    /\ uqPc = "start"
    /\ uqResult = TRUE
    /\ beInput = [clips |-> << >>, batch_size |-> 1]
    /\ beI = 0
    /\ bePc = "loop"
    /\ beSegments = << >>
    /\ rngState = 0
    /\ rwText = << >>
    /\ rwPc = << >>
    /\ rwOut = << >>
    /\ irInput = [path |-> "seq", generator |-> "ai", image |-> 0, webp |-> TRUE]
    /\ irPc = "start"
    /\ irRef = << >>
    /\ irClip = [kind |-> "none", image |-> 0]

RenderIndex == Len(rClips) + 1

\* create_background_clip: whatever fails inside the try (decoding, opening,
\* resizing, saving) is caught, and the gradient is returned instead.
CreateBackgroundClip(fails) ==
    /\ rPc = "background"
    /\ RenderIndex <= Len(rInput.durations)
    /\ LET d == rInput.durations[RenderIndex]
       IN rBg' = IF fails
                 THEN create_gradient_background(d, STYLE_PROFILES[rInput.style].color_tag)
                 ELSE ImageClipOf(d)
    /\ rPc' = "text"
    /\ UNCHANGED <<rInput, rClips>>
    /\ UNCHANGED nonRenderVars

\* create_professional_text_overlay, then the composite clip of the scene:
\* the styled TextClip is built inside try; the minimal one is built in the
\* except clause, outside any try, so its exception leaves the function and
\* the rendering loop.
CreateProfessionalTextOverlay(styledFails, minimalFails) ==
    /\ rPc = "text"
    /\ IF styledFails /\ minimalFails
       THEN /\ rPc' = "raised"
            /\ rClips' = rClips
       ELSE /\ rClips' = Append(rClips, [bg |-> rBg,
                                         text |-> IF styledFails THEN "minimal" ELSE "styled"])
            /\ rPc' = IF Len(rClips') = Len(rInput.durations) THEN "rendered" ELSE "background"
    /\ UNCHANGED <<rInput, rBg>>
    /\ UNCHANGED nonRenderVars

NextRender ==
    \/ \E fails \in BOOLEAN : CreateBackgroundClip(fails)
    \/ \E styledFails, minimalFails \in BOOLEAN :
          CreateProfessionalTextOverlay(styledFails, minimalFails)

SpecRender == InitRender /\ [][NextRender]_vars

\* C16: a render failure on one scene never aborts the job: a failed
\* background is replaced by a vertical gradient of the scene's duration made
\* from the palette of the job's style, a failed styled text by the minimal
\* overlay, neither raises, and every scene gets its clip.
C16_SceneRenderFailureIsContained ==
    /\ rPc # "raised"
    /\ rPc = "rendered" => Len(rClips) = Len(rInput.durations)
    /\ \A k \in 1..Len(rClips) :
          rClips[k].bg.kind = "gradient" =>
              /\ rClips[k].bg.duration = rInput.durations[k]
              /\ rClips[k].bg.palette = STYLE_PROFILES[rInput.style].color_tag

-----------------------------------------------------------------------------
(* The cleanup_worker thread *)

\* time.sleep(3600) and time.sleep(300), in ticks of 300 s
SweepSleepTicks == 12
BackOffTicks == 1
\* the cycle counter wraps, so that the worker can run forever in a finite model
SweepCycleWrap == 4

\* Where the worker is after a cycle: `while True` with every Exception of the
\* cycle caught, so it sleeps again whatever the cycle raised.
WorkerAfterCycleStops(errors) == IF errors = {} THEN "sleeping" ELSE "stopped"
WorkerAfterCycle(errors) == "sleeping"

InitSweep ==
    /\ cloudinary_available \in BOOLEAN
    /\ swPc = "sleeping"
    /\ swSlept = 0
    /\ swErrors = {}
    /\ swCycles = 0
    /\ entry = "pipeline"
    /\ parallel_processing = FALSE
    /\ lyrics = << >>
    /\ path = "none"
    /\ phase = "start"
    /\ scenes = << >>
    /\ previous_images = << >>
    /\ seqI = 1
    /\ attempt = 0
    /\ seqRaised = {}
    /\ task = << >>
    /\ cache = << >>
    /\ recency = << >>
    /\ lastOp = [op |-> "none", key |-> NoKey, evicted |-> {}, expected |-> {}]
    /\ tpc = [t \in 1..NumThreads |-> "idle"]
    /\ targ = [t \in 1..NumThreads |-> [key |-> NoKey, val |-> 0]]
    /\ keyError = FALSE
    /\ lyric = [text |-> << >>, duration |-> [present |-> FALSE, num |-> 0, den |-> 1]]
    /\ bpm = 0
    /\ called = "none"
    /\ duration = [num |-> 0, den |-> 1]
    /\ now = 0
    /\ storage = {}
    /\ pending_deletions = {}
    /\ timers = {}
    /\ sweepDue = SweepPeriod
    /\ jobs = 0
    /\ uploads = {}
    /\ deleted = {}
    /\ outage = FALSE
    /\ lastDelete = [called |-> FALSE, asset_id |-> << >>, alreadyDeleted |-> FALSE,
                     returned |-> FALSE, storageSame |-> TRUE, pendingSame |-> TRUE]
    /\ bgInput = [hf_token |-> FALSE, hf_available |-> FALSE, ai |-> "raises", style |-> {}]
    /\ bgPc = "start"
    /\ bgOutput = "none"
    /\ jobData = [entry |-> "pipeline", has_lyrics |-> FALSE, has_songTitle |-> FALSE,
                  webhook_url |-> FALSE, lyric_count |-> 0, motion_interpolation |-> FALSE]
    /\ jobPc = "start"
    /\ jobScenes = 0
    /\ jobSteps = << >>
    /\ jobFile = "none"
    /\ jobResult = [success |-> FALSE, error |-> "none", secure_url |-> [scheme |-> "none", path |-> << >>, ext |-> "none"],
                    public_id |-> << >>, upload_error |-> FALSE, expires |-> FALSE]
    /\ jobWebhooks = {}
    /\ dInput = [entry |-> "none", tag |-> [prefix |-> "", body |-> "unknown", upper |-> FALSE], style |-> "none"]
    /\ dPc = "start"
    /\ dOutcome = [kind |-> "none", fn |-> "none", seconds10 |-> 0]
    /\ rInput = [style |-> "dreamy_ethereal", durations |-> << >>]
    /\ rPc = "background"
    /\ rBg = [kind |-> "none", palette |-> "none", duration |-> 0]
    /\ rClips = << >>
    /\ mClip = [lib |-> "none", fn |-> "none", duration |-> 0, intensity |-> "low"]
    /\ mSamples = << >>
    /\ suInput = [url |-> [scheme |-> "https", netloc |-> "res.cloudinary.com", path |-> "/v/a.mp4", query |-> << >>],
                  expiry_hours |-> 24, storage_type |-> "cloudinary", time |-> 0]
    /\ suPc = "start"
    /\ suOutput = [scheme |-> "https", netloc |-> "res.cloudinary.com", path |-> "/v/a.mp4", query |-> << >>]
    /\ qCalls = << >>
    /\ plLock = "free"
    /\ plPc = [sweep |-> "sleeping", timer |-> << >>]
    /\ plTable = {}
    /\ plLast = [op |-> "none", thread |-> "none", holder |-> "free"]
    /\ aiService = << >>
    /\ aiPc = << >>
    /\ aiFanIn = "waiting"
    /\ uqInput = [candidate |-> 0, accepted |-> << >>]
    /\ uqPc = "start"
    /\ uqResult = TRUE
    /\ beInput = [clips |-> << >>, batch_size |-> 1]
    /\ beI = 0
    /\ bePc = "loop"
    /\ beSegments = << >>
    /\ rngState = 0
    /\ rwText = << >>
    /\ rwPc = << >>
    /\ rwOut = << >>
    /\ irInput = [path |-> "seq", generator |-> "ai", image |-> 0, webp |-> TRUE]
    /\ irPc = "start"
    /\ irRef = << >>
    /\ irClip = [kind |-> "none", image |-> 0]

\* time.sleep(3600), one tick at a time.
CleanupWorkerSleep ==
    /\ swPc = "sleeping"
    /\ swSlept' = swSlept + 1
    /\ swPc' = IF swSlept' = SweepSleepTicks THEN "cleaning" ELSE "sleeping"
    /\ UNCHANGED <<swErrors, swCycles>>
    /\ UNCHANGED nonSweepVars

\* _perform_scheduled_cleanup, and the return to the head of the loop.
\* _cleanup_cloudinary_assets catches what listing and deleting raise; then
\* `self.s3_available`, an attribute that is never set, raises AttributeError,
\* which the except clause of _perform_scheduled_cleanup catches (before
\* _cleanup_pending_deletions is reached). No Exception leaves the call, so
\* the except clause of cleanup_worker and its sleep(300) are not reached.
CleanupWorkerCycle(cloudinaryRaises) ==
    /\ swPc = "cleaning"
    /\ cloudinaryRaises => cloudinary_available
    /\ swErrors' = (IF cloudinaryRaises THEN {"cloudinary"} ELSE {}) \cup {"s3_available"}
    /\ swCycles' = (swCycles + 1) % SweepCycleWrap
    /\ swSlept' = 0
    /\ swPc' = WorkerAfterCycle(swErrors')
    /\ UNCHANGED nonSweepVars

NextSweep ==
    \/ CleanupWorkerSleep
    \/ \E cloudinaryRaises \in BOOLEAN : CleanupWorkerCycle(cloudinaryRaises)

SpecSweep == InitSweep /\ [][NextSweep]_vars

\* The worker is a thread of its own: it gets processor time, and its sleep
\* and the calls of a cycle return.
SpecSweepFair ==
    /\ SpecSweep
    /\ WF_vars(CleanupWorkerSleep)
    /\ WF_vars(\E cloudinaryRaises \in BOOLEAN : CleanupWorkerCycle(cloudinaryRaises))

-----------------------------------------------------------------------------
(* Motion functions *)

\* Times are in twentieths of a second, so that the thresholds of the motion
\* functions (0.2, 0.25, 0.3, 0.4 and 0.5 s) are whole numbers. Real values
\* are kept in thousandths; sine, cosine and the exponential are computed in
\* integer arithmetic (a rational approximation of math.sin, math.cos and
\* math.exp), angles and exponents in hundredths.
MaxSamples == 3
MaxSampleTime == 27

SampleTimes == {0, 3, 7, 12, MaxSampleTime}
ClipDurations == {30, 60}

\* int(x) for x = n / d: truncation towards zero
Trunc(n, d) == IF n >= 0 THEN n \div d ELSE -((-n) \div d)

Min(a, b) == IF a <= b THEN a ELSE b

\* 1000 * sin(c / 100)
SinHalfTurn(x) == (16 * x * (314 - x) * 1000) \div (5 * 314 * 314 - 4 * x * (314 - x))
Sin1000(c) ==
    LET x == c % 628
    IN IF x <= 314 THEN SinHalfTurn(x) ELSE -SinHalfTurn(x - 314)
Cos1000(c) == Sin1000(c + 157)

\* 1000 * exp(-c / 100), c >= 0
Exp1000(c) ==
    LET k == c \div 69
        base == IF k > 10 THEN 0 ELSE 1000 \div (2 ^ k)
    IN base - (base * (c % 69)) \div 138

\* the angle w * t_val, for w = w10 / 10 per second, in hundredths
Angle(w10, t) == (w10 * t) \div 2

\* AnimationLibrary: position_func(t) of each animate_* function, as the
\* offset (dx, dy) from (center_x, center_y). The closure reads t, and
\* duration_val and intensity_factor, which are fixed when the clip is made.
position_func(clip, t) ==
    LET f == clip.fn
        S(w10) == Sin1000(Angle(w10, t))
        C(w10) == Cos1000(Angle(w10, t))
        pop == IF t < 6 THEN 1000 - (t * 200) \div 6 ELSE 800 + S(20) \div 5
        jitter == IF clip.intensity = "high" THEN 15 ELSE 8
        shatter == IF clip.intensity = "extreme" THEN 25 ELSE 12
        pulse == IF clip.intensity = "high" THEN 15 ELSE 10
    IN CASE f = "animate_wobble_pop" ->
                [dx |-> Trunc(S(80) * 8 * pop, 1000000), dy |-> Trunc(C(60) * 6 * pop, 1000000)]
         [] f = "animate_jitter_shake" ->
                [dx |-> Trunc(S(150) * 12 * jitter, 10000), dy |-> Trunc(C(180) * 8 * jitter, 10000)]
         [] f = "animate_wipe_type" ->
                [dx |-> IF t < 8 THEN Trunc(-((8 - t) * 150), 8) ELSE 0, dy |-> 0]
         [] f = "animate_shatter_shift" ->
                [dx |-> Trunc((S(250) * 15 + S(400) * 8) * shatter, 10000),
                 dy |-> Trunc((C(200) * 10 + C(350) * 5) * shatter, 10000)]
         [] f = "animate_slide_snap" ->
                [dx |-> IF t < 5 THEN Trunc(-((5 - t) * 200), 5)
                        ELSE IF t > clip.duration - 5
                             THEN Trunc((5 - (clip.duration - t)) * 200, 5)
                             ELSE 0,
                 dy |-> 0]
         [] f = "animate_depth_fluid" ->
                [dx |-> Trunc(S(8) * 40, 1000), dy |-> Trunc(C(6) * 25, 1000)]
         [] f = "animate_type_flicker" ->
                IF ((t * 3) \div 4) % 7 = 0 THEN [dx |-> 1, dy |-> 1] ELSE [dx |-> 0, dy |-> 0]
         [] f = "animate_particle_dissolve" ->
                [dx |-> 0, dy |-> Trunc(S(12) * 15, 1000)]
         [] f = "animate_pulse_morph" ->
                [dx |-> Trunc(S(40) * 20 * pulse, 10000), dy |-> Trunc(C(30) * 15 * pulse, 10000)]
         [] f = "animate_simple_fade" ->
                [dx |-> 0, dy |-> 0]

\* _apply_physics_effect: params.get with its defaults
Params(dx, dy, scale, angle, opacity) ==
    [dx |-> dx, dy |-> dy, scale |-> scale, angle |-> angle, opacity |-> opacity]

\* PhysicsAnimator: physics_effect(t) of each animate_* function, with the
\* defaults of _apply_physics_effect for the parameters it leaves out; every
\* parameter in thousandths.
physics_effect(clip, t) ==
    LET f == clip.fn
        S(w10) == Sin1000(Angle(w10, t))
        C(w10) == Cos1000(Angle(w10, t))
        px(n) == 1000 * n
    IN CASE f = "animate_float_fade_sine" ->
                Params(0, px(Trunc(S(1) * 20, 1000)), 1000, 0, 1000)
         [] f = "animate_jitter_damp" ->
                LET amplitude == 20 * Exp1000(25 * t)
                IN Params(px(Trunc(amplitude * S(300), 1000000)),
                          px(Trunc(amplitude * C(300), 1000000)), 1000, 0, 1000)
         [] f = "animate_type_pulse" ->
                Params(0, 0, 1000 + Trunc(Exp1000(15 * t) * S(200), 10000), 0, 1000)
         [] f = "animate_wobble_spring" ->
                Params(px(Trunc(10 * (2 * S(15) + C(22)), 2000)),
                       px(Trunc(8 * (10 * C(13) + 7 * S(19)), 10000)),
                       1000, 2 * (S(17) + C(14)), 1000)
         [] f = "animate_shatter_collision" ->
                LET velocity == IF t < 4
                                THEN 100 * (1000 - Exp1000(75 * t))
                                ELSE Trunc(-(80 * Exp1000(40 * (t - 4)) * Sin1000(Angle(200, t - 4))), 1000)
                IN Params(px(Trunc(velocity * S(50), 1000000)),
                          px(Trunc(velocity * C(50), 1000000)),
                          1000, Trunc(velocity, 20), 1000)
         [] f = "animate_slide_inertia" ->
                Params(IF t < 6
                       THEN 150 * (1000 - Exp1000(50 * t))
                       ELSE 120000 + Trunc(30 * Exp1000(30 * (t - 6)) * Sin1000(Angle(150, t - 6)), 1000),
                       0, 1000, 0, 1000)
         [] f = "animate_depth_gravity" ->
                LET b == t - 10
                    distance == IF t < 10
                                THEN (49000 * t * t) \div 400
                                ELSE Trunc(Trunc(49000 * b * 20 - 49000 * b * b, 400) * Exp1000(15 * b), 1000)
                    capped == Min(distance, 100000)
                IN Params(0, px(Trunc(capped, 1000)), 1000 - Trunc(capped * 2, 1000), 0, 1000)
         [] f = "animate_lofi_wobble" ->
                LET damping == 500 + Exp1000((5 * t) \div 2) \div 2
                    roll == Trunc(damping * S(19), 1000)
                IN Params(0, px(Trunc(3 * roll, 1000)), 1000, Trunc(roll, 5), 1000)
         [] f = "animate_particle_decay" ->
                LET opacity == Exp1000(10 * t)
                IN Params(Trunc(10 * (1000 - opacity) * S(30), 1000),
                          Trunc(10 * (1000 - opacity) * C(25), 1000), 1000, 0, opacity)
         [] f = "animate_abstract_breath" ->
                Params(0, 0, 1000 + Trunc(S(13), 10), S(6), 1000)

AnimationLibrary ==
    {"animate_wobble_pop", "animate_jitter_shake", "animate_wipe_type", "animate_shatter_shift",
     "animate_slide_snap", "animate_depth_fluid", "animate_type_flicker",
     "animate_particle_dissolve", "animate_pulse_morph", "animate_simple_fade"}

PhysicsAnimator ==
    {"animate_float_fade_sine", "animate_jitter_damp", "animate_type_pulse", "animate_wobble_spring",
     "animate_shatter_collision", "animate_slide_inertia", "animate_depth_gravity",
     "animate_lofi_wobble", "animate_particle_decay", "animate_abstract_breath"}

\* (a transform that counts the calls made so far instead of reading t only)
MotionTransformByFrameCount(clip, t) ==
    LET tf == t + Len(mSamples)
    IN IF clip.lib = "AnimationLibrary"
       THEN LET p == position_func(clip, tf) IN Params(1000 * p.dx, 1000 * p.dy, 1000, 0, 1000)
       ELSE physics_effect(clip, tf)
\* The transform a clip returns at time t: its overlay position (the offset
\* from the centre) with the defaults of the other parameters, or the
\* parameters of its physics effect.
MotionTransform(clip, t) ==
    IF clip.lib = "AnimationLibrary"
    THEN LET p == position_func(clip, t) IN Params(1000 * p.dx, 1000 * p.dy, 1000, 0, 1000)
    ELSE physics_effect(clip, t)

InitMotion ==
    /\ \E lib \in {"AnimationLibrary", "PhysicsAnimator"}, d \in ClipDurations,
          intensity \in {"medium", "high", "extreme"} :
          \E f \in (IF lib = "AnimationLibrary" THEN AnimationLibrary ELSE PhysicsAnimator) :
              mClip = [lib |-> lib, fn |-> f, duration |-> d, intensity |-> intensity]
    /\ mSamples = << >>
    /\ entry = "pipeline"
    /\ parallel_processing = FALSE
    /\ lyrics = << >>
    /\ path = "none"
    /\ phase = "start"
    /\ scenes = << >>
    /\ previous_images = << >>
    /\ seqI = 1
    /\ attempt = 0
    /\ seqRaised = {}
    /\ task = << >>
    /\ cache = << >>
    /\ recency = << >>
    /\ lastOp = [op |-> "none", key |-> NoKey, evicted |-> {}, expected |-> {}]
    /\ tpc = [t \in 1..NumThreads |-> "idle"]
    /\ targ = [t \in 1..NumThreads |-> [key |-> NoKey, val |-> 0]]
    /\ keyError = FALSE
    /\ lyric = [text |-> << >>, duration |-> [present |-> FALSE, num |-> 0, den |-> 1]]
    /\ bpm = 0
    /\ called = "none"
    /\ duration = [num |-> 0, den |-> 1]
    /\ now = 0
    /\ cloudinary_available = TRUE
    /\ storage = {}
    /\ pending_deletions = {}
    /\ timers = {}
    /\ sweepDue = SweepPeriod
    /\ jobs = 0
    /\ uploads = {}
    /\ deleted = {}
    /\ outage = FALSE
    /\ lastDelete = [called |-> FALSE, asset_id |-> << >>, alreadyDeleted |-> FALSE,
                     returned |-> FALSE, storageSame |-> TRUE, pendingSame |-> TRUE]
    /\ bgInput = [hf_token |-> FALSE, hf_available |-> FALSE, ai |-> "raises", style |-> {}]
    /\ bgPc = "start"
    /\ bgOutput = "none"
    /\ jobData = [entry |-> "pipeline", has_lyrics |-> FALSE, has_songTitle |-> FALSE,
                  webhook_url |-> FALSE, lyric_count |-> 0, motion_interpolation |-> FALSE]
    /\ jobPc = "start"
    /\ jobScenes = 0
    /\ jobSteps = << >>
    /\ jobFile = "none"
    /\ jobResult = [success |-> FALSE, error |-> "none", secure_url |-> [scheme |-> "none", path |-> << >>, ext |-> "none"],
                    public_id |-> << >>, upload_error |-> FALSE, expires |-> FALSE]
    /\ jobWebhooks = {}
    /\ dInput = [entry |-> "none", tag |-> [prefix |-> "", body |-> "unknown", upper |-> FALSE], style |-> "none"]
    /\ dPc = "start"
    /\ dOutcome = [kind |-> "none", fn |-> "none", seconds10 |-> 0]
    /\ rInput = [style |-> "dreamy_ethereal", durations |-> << >>]
    /\ rPc = "background"
    /\ rBg = [kind |-> "none", palette |-> "none", duration |-> 0]
    /\ rClips = << >>
    /\ swPc = "sleeping"
    /\ swSlept = 0
    /\ swErrors = {}
    /\ swCycles = 0
    /\ suInput = [url |-> [scheme |-> "https", netloc |-> "res.cloudinary.com", path |-> "/v/a.mp4", query |-> << >>],
                  expiry_hours |-> 24, storage_type |-> "cloudinary", time |-> 0]
    /\ suPc = "start"
    /\ suOutput = [scheme |-> "https", netloc |-> "res.cloudinary.com", path |-> "/v/a.mp4", query |-> << >>]
    /\ qCalls = << >>
    /\ plLock = "free"
    /\ plPc = [sweep |-> "sleeping", timer |-> << >>]
    /\ plTable = {}
    /\ plLast = [op |-> "none", thread |-> "none", holder |-> "free"]
    /\ aiService = << >>
    /\ aiPc = << >>
    /\ aiFanIn = "waiting"
    /\ uqInput = [candidate |-> 0, accepted |-> << >>]
    /\ uqPc = "start"
    /\ uqResult = TRUE
    /\ beInput = [clips |-> << >>, batch_size |-> 1]
    /\ beI = 0
    /\ bePc = "loop"
    /\ beSegments = << >>
    /\ rngState = 0
    /\ rwText = << >>
    /\ rwPc = << >>
    /\ rwOut = << >>
    /\ irInput = [path |-> "seq", generator |-> "ai", image |-> 0, webp |-> TRUE]
    /\ irPc = "start"
    /\ irRef = << >>
    /\ irClip = [kind |-> "none", image |-> 0]

\* The renderer asks an AnimationLibrary clip for its position at time t.
SamplePosition(t) ==
    /\ mClip.lib = "AnimationLibrary"
    /\ Len(mSamples) < MaxSamples
    /\ mSamples' = Append(mSamples, [t |-> t, transform |-> MotionTransform(mClip, t)])
    /\ UNCHANGED mClip
    /\ UNCHANGED nonMotionVars

\* The renderer asks a PhysicsAnimator clip for its frame at time t.
SamplePhysics(t) ==
    /\ mClip.lib = "PhysicsAnimator"
    /\ Len(mSamples) < MaxSamples
    /\ mSamples' = Append(mSamples, [t |-> t, transform |-> MotionTransform(mClip, t)])
    /\ UNCHANGED mClip
    /\ UNCHANGED nonMotionVars

NextMotion ==
    \/ \E t \in SampleTimes : SamplePosition(t)
    \/ \E t \in SampleTimes : SamplePhysics(t)

SpecMotion == InitMotion /\ [][NextMotion]_vars

-----------------------------------------------------------------------------
(* StorageLifecycleManager.generate_signed_url *)

MaxQueryParams == 2

\* A URL: scheme, netloc, path and the query, a sequence of key=value pairs
\* in the order written (a value may be blank: "k="). The value of the
\* "_expires" parameter is a time in seconds, kept in the field `at`.
QueryParams == [k : {"v", "sig"}, v : {"", "1"}, at : {0}]
AssetUrls ==
    [scheme : {"https", "file"}, netloc : {"res.cloudinary.com"}, path : {"/v/a.mp4"},
     query : SeqsUpTo(QueryParams, MaxQueryParams)]

\* The keys of a query in the order they first occur.
RECURSIVE KeysInOrder(_)
KeysInOrder(q) ==
    IF q = << >> THEN << >>
    ELSE LET rest == KeysInOrder(SubSeq(q, 1, Len(q) - 1))
             last == q[Len(q)].k
         IN IF last \in Range(rest) THEN rest ELSE Append(rest, last)

\* The pairs of q with key k, in order.
RECURSIVE PairsOf(_, _)
PairsOf(q, k) ==
    IF q = << >> THEN << >>
    ELSE IF Head(q).k = k THEN <<Head(q)>> \o PairsOf(Tail(q), k) ELSE PairsOf(Tail(q), k)

RECURSIVE Grouped(_, _)
Grouped(q, keys) ==
    IF keys = << >> THEN << >> ELSE PairsOf(q, Head(keys)) \o Grouped(q, Tail(keys))

\* urllib.parse.parse_qs followed by urlencode(doseq=True): pairs with a blank
\* value are dropped, the others are grouped by key.
NonBlank(q) == SelectSeq(q, LAMBDA p : p.v # "")
ParseAndEncode(q) == Grouped(NonBlank(q), KeysInOrder(NonBlank(q)))

\* The "_expires" parameter: the time of the call plus expiry_hours, in seconds.
ExpiryMarker(in) == [k |-> "_expires", v |-> "seconds", at |-> in.time + in.expiry_hours * 3600]

\* generate_signed_url: the s3 branch reads self.s3_available, which is never
\* set, so it raises AttributeError and the except clause returns the URL as
\* it came; so does every call without cloudinary credentials.
generate_signed_url(in) ==
    IF in.storage_type = "cloudinary" /\ cloudinary_available
    THEN [in.url EXCEPT !.query = Append(ParseAndEncode(in.url.query), ExpiryMarker(in))]
    ELSE in.url

InitSignedUrl ==
    /\ suInput \in [url : AssetUrls, expiry_hours : {1, 24},
                    storage_type : {"cloudinary", "s3", "local"}, time : {0, 100}]
    /\ cloudinary_available \in BOOLEAN
    /\ suPc = "start"
    /\ suOutput = [scheme |-> "https", netloc |-> "res.cloudinary.com", path |-> "/v/a.mp4", query |-> << >>]
    /\ entry = "pipeline"
    /\ parallel_processing = FALSE
    /\ lyrics = << >>
    /\ path = "none"
    /\ phase = "start"
    /\ scenes = << >>
    /\ previous_images = << >>
    /\ seqI = 1
    /\ attempt = 0
    /\ seqRaised = {}
    /\ task = << >>
    /\ cache = << >>
    /\ recency = << >>
    /\ lastOp = [op |-> "none", key |-> NoKey, evicted |-> {}, expected |-> {}]
    /\ tpc = [t \in 1..NumThreads |-> "idle"]
    /\ targ = [t \in 1..NumThreads |-> [key |-> NoKey, val |-> 0]]
    /\ keyError = FALSE
    /\ lyric = [text |-> << >>, duration |-> [present |-> FALSE, num |-> 0, den |-> 1]]
    /\ bpm = 0
    /\ called = "none"
    /\ duration = [num |-> 0, den |-> 1]
    /\ now = 0
    /\ storage = {}
    /\ pending_deletions = {}
    /\ timers = {}
    /\ sweepDue = SweepPeriod
    /\ jobs = 0
    /\ uploads = {}
    /\ deleted = {}
    /\ outage = FALSE
    /\ lastDelete = [called |-> FALSE, asset_id |-> << >>, alreadyDeleted |-> FALSE,
                     returned |-> FALSE, storageSame |-> TRUE, pendingSame |-> TRUE]
    /\ bgInput = [hf_token |-> FALSE, hf_available |-> FALSE, ai |-> "raises", style |-> {}]
    /\ bgPc = "start"
    /\ bgOutput = "none"
    /\ jobData = [entry |-> "pipeline", has_lyrics |-> FALSE, has_songTitle |-> FALSE,
                  webhook_url |-> FALSE, lyric_count |-> 0, motion_interpolation |-> FALSE]
    /\ jobPc = "start"
    /\ jobScenes = 0
    /\ jobSteps = << >>
    /\ jobFile = "none"
    /\ jobResult = [success |-> FALSE, error |-> "none", secure_url |-> [scheme |-> "none", path |-> << >>, ext |-> "none"],
                    public_id |-> << >>, upload_error |-> FALSE, expires |-> FALSE]
    /\ jobWebhooks = {}
    /\ dInput = [entry |-> "none", tag |-> [prefix |-> "", body |-> "unknown", upper |-> FALSE], style |-> "none"]
    /\ dPc = "start"
    /\ dOutcome = [kind |-> "none", fn |-> "none", seconds10 |-> 0]
    /\ rInput = [style |-> "dreamy_ethereal", durations |-> << >>]
    /\ rPc = "background"
    /\ rBg = [kind |-> "none", palette |-> "none", duration |-> 0]
    /\ rClips = << >>
    /\ swPc = "sleeping"
    /\ swSlept = 0
    /\ swErrors = {}
    /\ swCycles = 0
    /\ mClip = [lib |-> "none", fn |-> "none", duration |-> 0, intensity |-> "low"]
    /\ mSamples = << >>
    /\ qCalls = << >>
    /\ plLock = "free"
    /\ plPc = [sweep |-> "sleeping", timer |-> << >>]
    /\ plTable = {}
    /\ plLast = [op |-> "none", thread |-> "none", holder |-> "free"]
    /\ aiService = << >>
    /\ aiPc = << >>
    /\ aiFanIn = "waiting"
    /\ uqInput = [candidate |-> 0, accepted |-> << >>]
    /\ uqPc = "start"
    /\ uqResult = TRUE
    /\ beInput = [clips |-> << >>, batch_size |-> 1]
    /\ beI = 0
    /\ bePc = "loop"
    /\ beSegments = << >>
    /\ rngState = 0
    /\ rwText = << >>
    /\ rwPc = << >>
    /\ rwOut = << >>
    /\ irInput = [path |-> "seq", generator |-> "ai", image |-> 0, webp |-> TRUE]
    /\ irPc = "start"
    /\ irRef = << >>
    /\ irClip = [kind |-> "none", image |-> 0]

GenerateSignedUrl ==
    /\ suPc = "start"
    /\ suOutput' = generate_signed_url(suInput)
    /\ suPc' = "returned"
    /\ UNCHANGED suInput
    /\ UNCHANGED nonSignedUrlVars

NextSignedUrl == GenerateSignedUrl

SpecSignedUrl == InitSignedUrl /\ [][NextSignedUrl]_vars

\* C21: generate_signed_url returns, for every asset URL and storage state,
\* the URL with the same scheme, host and path, every query parameter it had,
\* and an expiry marker expiry_hours ahead; and the video_url of a successful
\* generate_optimized_video is such an expiring URL.
C21_SignedUrlCarriesExpiry ==
    /\ suPc = "returned" =>
          /\ suOutput.scheme = suInput.url.scheme
          /\ suOutput.netloc = suInput.url.netloc
          /\ suOutput.path = suInput.url.path
          /\ ExpiryMarker(suInput) \in Range(suOutput.query)
          /\ \A p \in Range(suInput.url.query) : p \in Range(suOutput.query)
    /\ (jobPc = "returned" /\ jobData.entry = "pipeline" /\ jobResult.success)
          => jobResult.expires

-----------------------------------------------------------------------------
(* Quality selection: OptimizedEncoder and AdaptiveResolutionManager *)

MaxQualityCalls == 2

\* OptimizedEncoder.ENCODING_PROFILES (bitrate in k)
ENCODING_PROFILES ==
    [fast |-> [preset |-> "ultrafast", bitrate |-> 2000, crf |-> 28, threads |-> 2, quality |-> "low"],
     balanced |-> [preset |-> "fast", bitrate |-> 5000, crf |-> 23, threads |-> 4, quality |-> "medium"],
     quality |-> [preset |-> "medium", bitrate |-> 10000, crf |-> 18, threads |-> 6, quality |-> "high"],
     ultra |-> [preset |-> "slow", bitrate |-> 20000, crf |-> 14, threads |-> 8, quality |-> "ultra"]]

\* the table `resolutions` of get_adaptive_resolution
Resolutions ==
    [fast |-> <<854, 480>>, balanced |-> <<1280, 720>>,
     quality |-> <<1920, 1080>>, ultra |-> <<2560, 1440>>]

\* The quality keys callers pass: the four of the tables and two that are in
\* neither.
QualityKeys == {"fast", "balanced", "quality", "ultra", "preview", "unknown"}

get_encoding_profile(quality, preview) ==
    IF preview THEN ENCODING_PROFILES["fast"]
    ELSE IF quality \in DOMAIN ENCODING_PROFILES
         THEN ENCODING_PROFILES[quality] ELSE ENCODING_PROFILES["balanced"]

GetAdaptiveResolutionIgnoringPreview(quality, preview) ==
    IF quality \in DOMAIN Resolutions THEN Resolutions[quality] ELSE <<1280, 720>>
get_adaptive_resolution(quality, preview) ==
    IF preview THEN <<640, 360>>
    ELSE IF quality \in DOMAIN Resolutions THEN Resolutions[quality] ELSE <<1280, 720>>

InitQuality ==
    /\ qCalls = << >>
    /\ entry = "pipeline"
    /\ parallel_processing = FALSE
    /\ lyrics = << >>
    /\ path = "none"
    /\ phase = "start"
    /\ scenes = << >>
    /\ previous_images = << >>
    /\ seqI = 1
    /\ attempt = 0
    /\ seqRaised = {}
    /\ task = << >>
    /\ cache = << >>
    /\ recency = << >>
    /\ lastOp = [op |-> "none", key |-> NoKey, evicted |-> {}, expected |-> {}]
    /\ tpc = [t \in 1..NumThreads |-> "idle"]
    /\ targ = [t \in 1..NumThreads |-> [key |-> NoKey, val |-> 0]]
    /\ keyError = FALSE
    /\ lyric = [text |-> << >>, duration |-> [present |-> FALSE, num |-> 0, den |-> 1]]
    /\ bpm = 0
    /\ called = "none"
    /\ duration = [num |-> 0, den |-> 1]
    /\ now = 0
    /\ cloudinary_available = TRUE
    /\ storage = {}
    /\ pending_deletions = {}
    /\ timers = {}
    /\ sweepDue = SweepPeriod
    /\ jobs = 0
    /\ uploads = {}
    /\ deleted = {}
    /\ outage = FALSE
    /\ lastDelete = [called |-> FALSE, asset_id |-> << >>, alreadyDeleted |-> FALSE,
                     returned |-> FALSE, storageSame |-> TRUE, pendingSame |-> TRUE]
    /\ bgInput = [hf_token |-> FALSE, hf_available |-> FALSE, ai |-> "raises", style |-> {}]
    /\ bgPc = "start"
    /\ bgOutput = "none"
    /\ jobData = [entry |-> "pipeline", has_lyrics |-> FALSE, has_songTitle |-> FALSE,
                  webhook_url |-> FALSE, lyric_count |-> 0, motion_interpolation |-> FALSE]
    /\ jobPc = "start"
    /\ jobScenes = 0
    /\ jobSteps = << >>
    /\ jobFile = "none"
    /\ jobResult = [success |-> FALSE, error |-> "none", secure_url |-> [scheme |-> "none", path |-> << >>, ext |-> "none"],
                    public_id |-> << >>, upload_error |-> FALSE, expires |-> FALSE]
    /\ jobWebhooks = {}
    /\ dInput = [entry |-> "none", tag |-> [prefix |-> "", body |-> "unknown", upper |-> FALSE], style |-> "none"]
    /\ dPc = "start"
    /\ dOutcome = [kind |-> "none", fn |-> "none", seconds10 |-> 0]
    /\ rInput = [style |-> "dreamy_ethereal", durations |-> << >>]
    /\ rPc = "background"
    /\ rBg = [kind |-> "none", palette |-> "none", duration |-> 0]
    /\ rClips = << >>
    /\ swPc = "sleeping"
    /\ swSlept = 0
    /\ swErrors = {}
    /\ swCycles = 0
    /\ mClip = [lib |-> "none", fn |-> "none", duration |-> 0, intensity |-> "low"]
    /\ mSamples = << >>
    /\ suInput = [url |-> [scheme |-> "https", netloc |-> "res.cloudinary.com", path |-> "/v/a.mp4", query |-> << >>],
                  expiry_hours |-> 24, storage_type |-> "cloudinary", time |-> 0]
    /\ suPc = "start"
    /\ suOutput = [scheme |-> "https", netloc |-> "res.cloudinary.com", path |-> "/v/a.mp4", query |-> << >>]
    /\ plLock = "free"
    /\ plPc = [sweep |-> "sleeping", timer |-> << >>]
    /\ plTable = {}
    /\ plLast = [op |-> "none", thread |-> "none", holder |-> "free"]
    /\ aiService = << >>
    /\ aiPc = << >>
    /\ aiFanIn = "waiting"
    /\ uqInput = [candidate |-> 0, accepted |-> << >>]
    /\ uqPc = "start"
    /\ uqResult = TRUE
    /\ beInput = [clips |-> << >>, batch_size |-> 1]
    /\ beI = 0
    /\ bePc = "loop"
    /\ beSegments = << >>
    /\ rngState = 0
    /\ rwText = << >>
    /\ rwPc = << >>
    /\ rwOut = << >>
    /\ irInput = [path |-> "seq", generator |-> "ai", image |-> 0, webp |-> TRUE]
    /\ irPc = "start"
    /\ irRef = << >>
    /\ irClip = [kind |-> "none", image |-> 0]

\* One call of each function with the same arguments, as
\* _get_optimal_resolution and _create_optimized_video make them for a job.
SelectQuality(quality, preview) ==
    /\ Len(qCalls) < MaxQualityCalls
    /\ qCalls' = Append(qCalls, [quality |-> quality, preview |-> preview,
                                 profile |-> get_encoding_profile(quality, preview),
                                 resolution |-> get_adaptive_resolution(quality, preview)])
    /\ UNCHANGED nonQualityVars

NextQuality == \E quality \in QualityKeys, preview \in BOOLEAN : SelectQuality(quality, preview)

SpecQuality == InitQuality /\ [][NextQuality]_vars

QualityOrder == <<"fast", "balanced", "quality", "ultra">>

\* C22: with the preview flag the profile is the fastest one and the
\* resolution the smallest size, whatever the quality key; without it both
\* are the table entries of the key, those of "balanced" for an unknown key;
\* and the resolutions strictly increase from fast to ultra.
C22_QualitySelection ==
    /\ \A n \in 1..Len(qCalls) :
          LET c == qCalls[n]
          IN IF c.preview
             THEN /\ c.profile = ENCODING_PROFILES["fast"]
                  /\ \A k \in DOMAIN ENCODING_PROFILES :
                        /\ c.profile.bitrate <= ENCODING_PROFILES[k].bitrate
                        /\ c.profile.crf >= ENCODING_PROFILES[k].crf
                  /\ c.resolution = <<640, 360>>
                  /\ \A k \in DOMAIN Resolutions :
                        c.resolution[1] < Resolutions[k][1] /\ c.resolution[2] < Resolutions[k][2]
             ELSE IF c.quality \in {"fast", "balanced", "quality", "ultra"}
                  THEN c.profile = ENCODING_PROFILES[c.quality] /\ c.resolution = Resolutions[c.quality]
                  ELSE c.profile = ENCODING_PROFILES["balanced"] /\ c.resolution = Resolutions["balanced"]
    /\ qCalls # << >> =>
          \A a \in 1..3 :
              /\ Resolutions[QualityOrder[a]][1] < Resolutions[QualityOrder[a + 1]][1]
              /\ Resolutions[QualityOrder[a]][2] < Resolutions[QualityOrder[a + 1]][2]

\* C22 witness: a preview call with the key "ultra" and a call with an unknown
\* key have both been made.
C22_Witness ==
    /\ Len(qCalls) = 2
    /\ qCalls[1].preview /\ qCalls[1].quality = "ultra"
    /\ ~qCalls[2].preview /\ qCalls[2].quality = "unknown"

-----------------------------------------------------------------------------
(* self.pending_deletions and self.cleanup_lock, one step per statement.
   The request threads run schedule_deletion, one timer thread per scheduled
   asset runs _delete_after_delay, the cleanup_worker thread runs
   _perform_scheduled_cleanup. *)

NumLockAssets == 3

LockAssets == 1..NumLockAssets

InitPendingLock ==
    /\ plLock = "free"
    /\ plPc = [sweep |-> "sleeping", timer |-> [a \in LockAssets |-> "none"]]
    /\ plTable = {}
    /\ plLast = [op |-> "none", thread |-> "none", holder |-> "free"]
    /\ entry = "pipeline"
    /\ parallel_processing = FALSE
    /\ lyrics = << >>
    /\ path = "none"
    /\ phase = "start"
    /\ scenes = << >>
    /\ previous_images = << >>
    /\ seqI = 1
    /\ attempt = 0
    /\ seqRaised = {}
    /\ task = << >>
    /\ cache = << >>
    /\ recency = << >>
    /\ lastOp = [op |-> "none", key |-> NoKey, evicted |-> {}, expected |-> {}]
    /\ tpc = [t \in 1..NumThreads |-> "idle"]
    /\ targ = [t \in 1..NumThreads |-> [key |-> NoKey, val |-> 0]]
    /\ keyError = FALSE
    /\ lyric = [text |-> << >>, duration |-> [present |-> FALSE, num |-> 0, den |-> 1]]
    /\ bpm = 0
    /\ called = "none"
    /\ duration = [num |-> 0, den |-> 1]
    /\ now = 0
    /\ cloudinary_available = TRUE
    /\ storage = {}
    /\ pending_deletions = {}
    /\ timers = {}
    /\ sweepDue = SweepPeriod
    /\ jobs = 0
    /\ uploads = {}
    /\ deleted = {}
    /\ outage = FALSE
    /\ lastDelete = [called |-> FALSE, asset_id |-> << >>, alreadyDeleted |-> FALSE,
                     returned |-> FALSE, storageSame |-> TRUE, pendingSame |-> TRUE]
    /\ bgInput = [hf_token |-> FALSE, hf_available |-> FALSE, ai |-> "raises", style |-> {}]
    /\ bgPc = "start"
    /\ bgOutput = "none"
    /\ jobData = [entry |-> "pipeline", has_lyrics |-> FALSE, has_songTitle |-> FALSE,
                  webhook_url |-> FALSE, lyric_count |-> 0, motion_interpolation |-> FALSE]
    /\ jobPc = "start"
    /\ jobScenes = 0
    /\ jobSteps = << >>
    /\ jobFile = "none"
    /\ jobResult = [success |-> FALSE, error |-> "none", secure_url |-> [scheme |-> "none", path |-> << >>, ext |-> "none"],
                    public_id |-> << >>, upload_error |-> FALSE, expires |-> FALSE]
    /\ jobWebhooks = {}
    /\ dInput = [entry |-> "none", tag |-> [prefix |-> "", body |-> "unknown", upper |-> FALSE], style |-> "none"]
    /\ dPc = "start"
    /\ dOutcome = [kind |-> "none", fn |-> "none", seconds10 |-> 0]
    /\ rInput = [style |-> "dreamy_ethereal", durations |-> << >>]
    /\ rPc = "background"
    /\ rBg = [kind |-> "none", palette |-> "none", duration |-> 0]
    /\ rClips = << >>
    /\ swPc = "sleeping"
    /\ swSlept = 0
    /\ swErrors = {}
    /\ swCycles = 0
    /\ mClip = [lib |-> "none", fn |-> "none", duration |-> 0, intensity |-> "low"]
    /\ mSamples = << >>
    /\ suInput = [url |-> [scheme |-> "https", netloc |-> "res.cloudinary.com", path |-> "/v/a.mp4", query |-> << >>],
                  expiry_hours |-> 24, storage_type |-> "cloudinary", time |-> 0]
    /\ suPc = "start"
    /\ suOutput = [scheme |-> "https", netloc |-> "res.cloudinary.com", path |-> "/v/a.mp4", query |-> << >>]
    /\ qCalls = << >>
    /\ aiService = << >>
    /\ aiPc = << >>
    /\ aiFanIn = "waiting"
    /\ uqInput = [candidate |-> 0, accepted |-> << >>]
    /\ uqPc = "start"
    /\ uqResult = TRUE
    /\ beInput = [clips |-> << >>, batch_size |-> 1]
    /\ beI = 0
    /\ bePc = "loop"
    /\ beSegments = << >>
    /\ rngState = 0
    /\ rwText = << >>
    /\ rwPc = << >>
    /\ rwOut = << >>
    /\ irInput = [path |-> "seq", generator |-> "ai", image |-> 0, webp |-> TRUE]
    /\ irPc = "start"
    /\ irRef = << >>
    /\ irClip = [kind |-> "none", image |-> 0]

\* schedule_deletion: self.pending_deletions[asset_id] = expiry_time, then
\* the timer thread is started. No lock is taken.
ScheduleDeletion(a) ==
    /\ plPc.timer[a] = "none"
    /\ plTable' = plTable \cup {a}
    /\ plPc' = [plPc EXCEPT !.timer[a] = "sleeping"]
    /\ plLast' = [op |-> "schedule_deletion", thread |-> "request", holder |-> plLock]
    /\ UNCHANGED <<plLock, nonPendingLockVars>>

\* delete_asset, at the timer's wake-up: `if asset_id in self.pending_deletions`
DeleteAssetMembership(a) ==
    /\ plPc.timer[a] = "sleeping"
    /\ plPc' = [plPc EXCEPT !.timer[a] = IF a \in plTable THEN "found" ELSE "none"]
    /\ UNCHANGED <<plLock, plTable, plLast, nonPendingLockVars>>

\* delete_asset: `del self.pending_deletions[asset_id]`. No lock is taken.
DeleteAssetDel(a) ==
    /\ plPc.timer[a] = "found"
    /\ plTable' = plTable \ {a}
    /\ plPc' = [plPc EXCEPT !.timer[a] = "none"]
    /\ plLast' = [op |-> "delete_asset", thread |-> "timer", holder |-> plLock]
    /\ UNCHANGED <<plLock, nonPendingLockVars>>

\* _perform_scheduled_cleanup: `with self.cleanup_lock:`
SweepAcquire ==
    /\ plPc.sweep = "sleeping"
    /\ plLock = "free"
    /\ plLock' = "sweep"
    /\ plPc' = [plPc EXCEPT !.sweep = "locked"]
    /\ UNCHANGED <<plTable, plLast, nonPendingLockVars>>

\* The body of the with-block: the Cloudinary pass, then `if
\* self.s3_available:` raises AttributeError, which the except inside the
\* block catches; the block ends and the lock is released with the table
\* untouched (_cleanup_pending_deletions is not reached).
SweepBodyRaises ==
    /\ plPc.sweep = "locked"
    /\ plLock' = "free"
    /\ plPc' = [plPc EXCEPT !.sweep = "sleeping"]
    /\ UNCHANGED <<plTable, plLast, nonPendingLockVars>>

NextPendingLock ==
    \/ \E a \in LockAssets : ScheduleDeletion(a)
    \/ \E a \in LockAssets : DeleteAssetMembership(a)
    \/ \E a \in LockAssets : DeleteAssetDel(a)
    \/ SweepAcquire
    \/ SweepBodyRaises

SpecPendingLock == InitPendingLock /\ [][NextPendingLock]_vars

\* C31: every mutation of the pending-deletion table (the insert of
\* schedule_deletion, the removal of delete_asset, the removal of the sweep)
\* is made by a thread that holds cleanup_lock at that moment, so none
\* happens while the sweep thread is inside its locked section.
C31_TableMutatedUnderLock ==
    plLast.op # "none" => plLast.holder = plLast.thread

-----------------------------------------------------------------------------
(* The AI image call inside the worker pool: generate_styled_background run
   by process_single_lyric, with HF_TOKEN set and the inference library
   present, and the fan-in of parallel_generate_scenes. *)

NumAiTasks == 4

\* The service answers with an image, the call raises, or no answer ever
\* comes. InferenceClient(api_key=hf_token) is built without a timeout and
\* text_to_image is called without one: the call returns only when the
\* service answers or the connection fails.
AiCallBehaviours == {"image", "raises", "no_response"}

InitAiCall ==
    /\ aiService \in [1..NumAiTasks -> AiCallBehaviours]
    /\ aiPc = [i \in 1..NumAiTasks |-> "queued"]
    /\ aiFanIn = "waiting"
    /\ entry = "pipeline"
    /\ parallel_processing = FALSE
    /\ lyrics = << >>
    /\ path = "none"
    /\ phase = "start"
    /\ scenes = << >>
    /\ previous_images = << >>
    /\ seqI = 1
    /\ attempt = 0
    /\ seqRaised = {}
    /\ task = << >>
    /\ cache = << >>
    /\ recency = << >>
    /\ lastOp = [op |-> "none", key |-> NoKey, evicted |-> {}, expected |-> {}]
    /\ tpc = [t \in 1..NumThreads |-> "idle"]
    /\ targ = [t \in 1..NumThreads |-> [key |-> NoKey, val |-> 0]]
    /\ keyError = FALSE
    /\ lyric = [text |-> << >>, duration |-> [present |-> FALSE, num |-> 0, den |-> 1]]
    /\ bpm = 0
    /\ called = "none"
    /\ duration = [num |-> 0, den |-> 1]
    /\ now = 0
    /\ cloudinary_available = TRUE
    /\ storage = {}
    /\ pending_deletions = {}
    /\ timers = {}
    /\ sweepDue = SweepPeriod
    /\ jobs = 0
    /\ uploads = {}
    /\ deleted = {}
    /\ outage = FALSE
    /\ lastDelete = [called |-> FALSE, asset_id |-> << >>, alreadyDeleted |-> FALSE,
                     returned |-> FALSE, storageSame |-> TRUE, pendingSame |-> TRUE]
    /\ bgInput = [hf_token |-> FALSE, hf_available |-> FALSE, ai |-> "raises", style |-> {}]
    /\ bgPc = "start"
    /\ bgOutput = "none"
    /\ jobData = [entry |-> "pipeline", has_lyrics |-> FALSE, has_songTitle |-> FALSE,
                  webhook_url |-> FALSE, lyric_count |-> 0, motion_interpolation |-> FALSE]
    /\ jobPc = "start"
    /\ jobScenes = 0
    /\ jobSteps = << >>
    /\ jobFile = "none"
    /\ jobResult = [success |-> FALSE, error |-> "none", secure_url |-> [scheme |-> "none", path |-> << >>, ext |-> "none"],
                    public_id |-> << >>, upload_error |-> FALSE, expires |-> FALSE]
    /\ jobWebhooks = {}
    /\ dInput = [entry |-> "none", tag |-> [prefix |-> "", body |-> "unknown", upper |-> FALSE], style |-> "none"]
    /\ dPc = "start"
    /\ dOutcome = [kind |-> "none", fn |-> "none", seconds10 |-> 0]
    /\ rInput = [style |-> "dreamy_ethereal", durations |-> << >>]
    /\ rPc = "background"
    /\ rBg = [kind |-> "none", palette |-> "none", duration |-> 0]
    /\ rClips = << >>
    /\ swPc = "sleeping"
    /\ swSlept = 0
    /\ swErrors = {}
    /\ swCycles = 0
    /\ mClip = [lib |-> "none", fn |-> "none", duration |-> 0, intensity |-> "low"]
    /\ mSamples = << >>
    /\ suInput = [url |-> [scheme |-> "https", netloc |-> "res.cloudinary.com", path |-> "/v/a.mp4", query |-> << >>],
                  expiry_hours |-> 24, storage_type |-> "cloudinary", time |-> 0]
    /\ suPc = "start"
    /\ suOutput = [scheme |-> "https", netloc |-> "res.cloudinary.com", path |-> "/v/a.mp4", query |-> << >>]
    /\ qCalls = << >>
    /\ plLock = "free"
    /\ plPc = [sweep |-> "sleeping", timer |-> << >>]
    /\ plTable = {}
    /\ plLast = [op |-> "none", thread |-> "none", holder |-> "free"]
    /\ uqInput = [candidate |-> 0, accepted |-> << >>]
    /\ uqPc = "start"
    /\ uqResult = TRUE
    /\ beInput = [clips |-> << >>, batch_size |-> 1]
    /\ beI = 0
    /\ bePc = "loop"
    /\ beSegments = << >>
    /\ rngState = 0
    /\ rwText = << >>
    /\ rwPc = << >>
    /\ rwOut = << >>
    /\ irInput = [path |-> "seq", generator |-> "ai", image |-> 0, webp |-> TRUE]
    /\ irPc = "start"
    /\ irRef = << >>
    /\ irClip = [kind |-> "none", image |-> 0]

AiRunning == {i \in 1..NumAiTasks : aiPc[i] \in {"calling", "fallback"}}

\* A free worker of the pool takes the next work item and reaches
\* client.text_to_image(...).
AiCallStart(i) ==
    /\ aiPc[i] = "queued"
    /\ \A j \in 1..(i - 1) : aiPc[j] # "queued"
    /\ Cardinality(AiRunning) < MaxWorkers
    /\ aiPc' = [aiPc EXCEPT ![i] = "calling"]
    /\ UNCHANGED <<aiService, aiFanIn, nonAiCallVars>>

\* text_to_image returns an image, or raises into `except Exception`.
AiCallAnswered(i) ==
    /\ aiPc[i] = "calling"
    /\ aiService[i] # "no_response"
    /\ aiPc' = [aiPc EXCEPT ![i] = IF aiService[i] = "image" THEN "done" ELSE "fallback"]
    /\ UNCHANGED <<aiService, aiFanIn, nonAiCallVars>>

\* return generate_procedural_fallback_background(lyric, style_profile)
AiCallFallback(i) ==
    /\ aiPc[i] = "fallback"
    /\ aiPc' = [aiPc EXCEPT ![i] = "done"]
    /\ UNCHANGED <<aiService, aiFanIn, nonAiCallVars>>

\* `for future in as_completed(futures)` has seen every future, the
\* with-block of the executor ends.
AiFanInReturns ==
    /\ aiFanIn = "waiting"
    /\ \A i \in 1..NumAiTasks : aiPc[i] = "done"
    /\ aiFanIn' = "returned"
    /\ UNCHANGED <<aiService, aiPc, nonAiCallVars>>

NextAiCall ==
    \/ \E i \in 1..NumAiTasks : AiCallStart(i)
    \/ \E i \in 1..NumAiTasks : AiCallAnswered(i)
    \/ \E i \in 1..NumAiTasks : AiCallFallback(i)
    \/ AiFanInReturns

\* Every thread that can take a step eventually takes it.
SpecAiCall == InitAiCall /\ [][NextAiCall]_vars /\ WF_vars(NextAiCall)

\* C32: scene generation eventually completes whatever the AI image service
\* does, also when it never answers: every task of the pool completes and
\* the fan-in of the parallel path returns.
C32_SceneGenerationCompletes ==
    <>(aiFanIn = "returned")

-----------------------------------------------------------------------------
(* UniquenessValidator.check_uniqueness as a function of the binarized grids.
   An image is the content of its grid, read as a binary number. *)

\* Stand-in for the 64 cells of the 8x8 grid.
GridBits == 8
\* The grids of the candidates and accepted images: the numbers 0..MaxGrid.
MaxGrid == 15
MaxAccepted == 2

\* hash_bits: '1' if pixel > avg else '0', cell by cell
hash_bits(image) == [p \in 1..GridBits |-> (image \div (2 ^ (p - 1))) % 2]

\* The number of cells in which the binarized grids of two images agree.
MatchingBits(a, b) ==
    Cardinality({p \in 1..GridBits : hash_bits(a)[p] = hash_bits(b)[p]})

InitUniqueness ==
    /\ uqInput \in [candidate : 0..MaxGrid, accepted : SeqsUpTo(0..MaxGrid, MaxAccepted)]
    /\ uqPc = "start"
    /\ uqResult = TRUE
    /\ entry = "pipeline"
    /\ parallel_processing = FALSE
    /\ lyrics = << >>
    /\ path = "none"
    /\ phase = "start"
    /\ scenes = << >>
    /\ previous_images = << >>
    /\ seqI = 1
    /\ attempt = 0
    /\ seqRaised = {}
    /\ task = << >>
    /\ cache = << >>
    /\ recency = << >>
    /\ lastOp = [op |-> "none", key |-> NoKey, evicted |-> {}, expected |-> {}]
    /\ tpc = [t \in 1..NumThreads |-> "idle"]
    /\ targ = [t \in 1..NumThreads |-> [key |-> NoKey, val |-> 0]]
    /\ keyError = FALSE
    /\ lyric = [text |-> << >>, duration |-> [present |-> FALSE, num |-> 0, den |-> 1]]
    /\ bpm = 0
    /\ called = "none"
    /\ duration = [num |-> 0, den |-> 1]
    /\ now = 0
    /\ cloudinary_available = TRUE
    /\ storage = {}
    /\ pending_deletions = {}
    /\ timers = {}
    /\ sweepDue = SweepPeriod
    /\ jobs = 0
    /\ uploads = {}
    /\ deleted = {}
    /\ outage = FALSE
    /\ lastDelete = [called |-> FALSE, asset_id |-> << >>, alreadyDeleted |-> FALSE,
                     returned |-> FALSE, storageSame |-> TRUE, pendingSame |-> TRUE]
    /\ bgInput = [hf_token |-> FALSE, hf_available |-> FALSE, ai |-> "raises", style |-> {}]
    /\ bgPc = "start"
    /\ bgOutput = "none"
    /\ jobData = [entry |-> "pipeline", has_lyrics |-> FALSE, has_songTitle |-> FALSE,
                  webhook_url |-> FALSE, lyric_count |-> 0, motion_interpolation |-> FALSE]
    /\ jobPc = "start"
    /\ jobScenes = 0
    /\ jobSteps = << >>
    /\ jobFile = "none"
    /\ jobResult = [success |-> FALSE, error |-> "none", secure_url |-> [scheme |-> "none", path |-> << >>, ext |-> "none"],
                    public_id |-> << >>, upload_error |-> FALSE, expires |-> FALSE]
    /\ jobWebhooks = {}
    /\ dInput = [entry |-> "none", tag |-> [prefix |-> "", body |-> "unknown", upper |-> FALSE], style |-> "none"]
    /\ dPc = "start"
    /\ dOutcome = [kind |-> "none", fn |-> "none", seconds10 |-> 0]
    /\ rInput = [style |-> "dreamy_ethereal", durations |-> << >>]
    /\ rPc = "background"
    /\ rBg = [kind |-> "none", palette |-> "none", duration |-> 0]
    /\ rClips = << >>
    /\ swPc = "sleeping"
    /\ swSlept = 0
    /\ swErrors = {}
    /\ swCycles = 0
    /\ mClip = [lib |-> "none", fn |-> "none", duration |-> 0, intensity |-> "low"]
    /\ mSamples = << >>
    /\ suInput = [url |-> [scheme |-> "https", netloc |-> "res.cloudinary.com", path |-> "/v/a.mp4", query |-> << >>],
                  expiry_hours |-> 24, storage_type |-> "cloudinary", time |-> 0]
    /\ suPc = "start"
    /\ suOutput = [scheme |-> "https", netloc |-> "res.cloudinary.com", path |-> "/v/a.mp4", query |-> << >>]
    /\ qCalls = << >>
    /\ plLock = "free"
    /\ plPc = [sweep |-> "sleeping", timer |-> << >>]
    /\ plTable = {}
    /\ plLast = [op |-> "none", thread |-> "none", holder |-> "free"]
    /\ aiService = << >>
    /\ aiPc = << >>
    /\ aiFanIn = "waiting"
    /\ beInput = [clips |-> << >>, batch_size |-> 1]
    /\ beI = 0
    /\ bePc = "loop"
    /\ beSegments = << >>
    /\ rngState = 0
    /\ rwText = << >>
    /\ rwPc = << >>
    /\ rwOut = << >>
    /\ irInput = [path |-> "seq", generator |-> "ai", image |-> 0, webp |-> TRUE]
    /\ irPc = "start"
    /\ irRef = << >>
    /\ irClip = [kind |-> "none", image |-> 0]

CheckUniqueness ==
    /\ uqPc = "start"
    /\ uqResult' = check_uniqueness(uqInput.candidate, uqInput.accepted)
    /\ uqPc' = "done"
    /\ UNCHANGED <<uqInput, nonUniquenessVars>>

NextUniqueness == CheckUniqueness

SpecUniqueness == InitUniqueness /\ [][NextUniqueness]_vars

\* C33: check_uniqueness returns false exactly when the fraction of matching
\* bits between the binarized grid of the candidate and that of some accepted
\* image exceeds 0.85, and true for an empty accepted list.
C33_RejectsByMatchingBits ==
    uqPc = "done" =>
        uqResult = ~(\E k \in 1..Len(uqInput.accepted) :
                        MatchingBits(uqInput.candidate, uqInput.accepted[k]) * 100
                            > ThresholdPct * GridBits)

-----------------------------------------------------------------------------
(* OptimizedEncoder.batch_encode_clips, one loop iteration per step. A clip
   is its position in the input list. *)

MaxClips == 7
MaxBatchSize == 4

BatchSliceOneMore(clips, i, batch_size) ==
    SubSeq(clips, i + 1, Min(i + batch_size + 1, Len(clips)))
\* clips[i:i+batch_size]
BatchSlice(clips, i, batch_size) ==
    SubSeq(clips, i + 1, Min(i + batch_size, Len(clips)))

InitBatch ==
    /\ beInput \in {[clips |-> [k \in 1..n |-> k], batch_size |-> b] :
                      n \in 0..MaxClips, b \in 1..MaxBatchSize}
    /\ beI = 0
    /\ bePc = "loop"
    /\ beSegments = << >>
    /\ entry = "pipeline"
    /\ parallel_processing = FALSE
    /\ lyrics = << >>
    /\ path = "none"
    /\ phase = "start"
    /\ scenes = << >>
    /\ previous_images = << >>
    /\ seqI = 1
    /\ attempt = 0
    /\ seqRaised = {}
    /\ task = << >>
    /\ cache = << >>
    /\ recency = << >>
    /\ lastOp = [op |-> "none", key |-> NoKey, evicted |-> {}, expected |-> {}]
    /\ tpc = [t \in 1..NumThreads |-> "idle"]
    /\ targ = [t \in 1..NumThreads |-> [key |-> NoKey, val |-> 0]]
    /\ keyError = FALSE
    /\ lyric = [text |-> << >>, duration |-> [present |-> FALSE, num |-> 0, den |-> 1]]
    /\ bpm = 0
    /\ called = "none"
    /\ duration = [num |-> 0, den |-> 1]
    /\ now = 0
    /\ cloudinary_available = TRUE
    /\ storage = {}
    /\ pending_deletions = {}
    /\ timers = {}
    /\ sweepDue = SweepPeriod
    /\ jobs = 0
    /\ uploads = {}
    /\ deleted = {}
    /\ outage = FALSE
    /\ lastDelete = [called |-> FALSE, asset_id |-> << >>, alreadyDeleted |-> FALSE,
                     returned |-> FALSE, storageSame |-> TRUE, pendingSame |-> TRUE]
    /\ bgInput = [hf_token |-> FALSE, hf_available |-> FALSE, ai |-> "raises", style |-> {}]
    /\ bgPc = "start"
    /\ bgOutput = "none"
    /\ jobData = [entry |-> "pipeline", has_lyrics |-> FALSE, has_songTitle |-> FALSE,
                  webhook_url |-> FALSE, lyric_count |-> 0, motion_interpolation |-> FALSE]
    /\ jobPc = "start"
    /\ jobScenes = 0
    /\ jobSteps = << >>
    /\ jobFile = "none"
    /\ jobResult = [success |-> FALSE, error |-> "none", secure_url |-> [scheme |-> "none", path |-> << >>, ext |-> "none"],
                    public_id |-> << >>, upload_error |-> FALSE, expires |-> FALSE]
    /\ jobWebhooks = {}
    /\ dInput = [entry |-> "none", tag |-> [prefix |-> "", body |-> "unknown", upper |-> FALSE], style |-> "none"]
    /\ dPc = "start"
    /\ dOutcome = [kind |-> "none", fn |-> "none", seconds10 |-> 0]
    /\ rInput = [style |-> "dreamy_ethereal", durations |-> << >>]
    /\ rPc = "background"
    /\ rBg = [kind |-> "none", palette |-> "none", duration |-> 0]
    /\ rClips = << >>
    /\ swPc = "sleeping"
    /\ swSlept = 0
    /\ swErrors = {}
    /\ swCycles = 0
    /\ mClip = [lib |-> "none", fn |-> "none", duration |-> 0, intensity |-> "low"]
    /\ mSamples = << >>
    /\ suInput = [url |-> [scheme |-> "https", netloc |-> "res.cloudinary.com", path |-> "/v/a.mp4", query |-> << >>],
                  expiry_hours |-> 24, storage_type |-> "cloudinary", time |-> 0]
    /\ suPc = "start"
    /\ suOutput = [scheme |-> "https", netloc |-> "res.cloudinary.com", path |-> "/v/a.mp4", query |-> << >>]
    /\ qCalls = << >>
    /\ plLock = "free"
    /\ plPc = [sweep |-> "sleeping", timer |-> << >>]
    /\ plTable = {}
    /\ plLast = [op |-> "none", thread |-> "none", holder |-> "free"]
    /\ aiService = << >>
    /\ aiPc = << >>
    /\ aiFanIn = "waiting"
    /\ uqInput = [candidate |-> 0, accepted |-> << >>]
    /\ uqPc = "start"
    /\ uqResult = TRUE
    /\ rngState = 0
    /\ rwText = << >>
    /\ rwPc = << >>
    /\ rwOut = << >>
    /\ irInput = [path |-> "seq", generator |-> "ai", image |-> 0, webp |-> TRUE]
    /\ irPc = "start"
    /\ irRef = << >>
    /\ irClip = [kind |-> "none", image |-> 0]

\* One iteration of `for i in range(0, len(clips), batch_size)`: the batch is
\* concatenated and written to f"{output_pattern}_batch_{i//batch_size}.mp4";
\* writeRaises: concatenate_videoclips or write_videofile raises, which
\* nothing in the function catches.
EncodeBatch(writeRaises) ==
    LET batch == BatchSlice(beInput.clips, beI, beInput.batch_size)
    IN /\ bePc = "loop"
       /\ beI < Len(beInput.clips)
       /\ IF writeRaises
          THEN bePc' = "raised" /\ UNCHANGED <<beI, beSegments>>
          ELSE /\ beSegments' =
                     IF batch # << >>
                     THEN Append(beSegments,
                                 [index |-> beI \div beInput.batch_size, clips |-> batch])
                     ELSE beSegments
               /\ beI' = beI + beInput.batch_size
               /\ bePc' = bePc
       /\ UNCHANGED <<beInput, nonBatchVars>>

\* The range is exhausted: return output_paths
BatchReturn ==
    /\ bePc = "loop"
    /\ beI >= Len(beInput.clips)
    /\ bePc' = "returned"
    /\ UNCHANGED <<beInput, beI, beSegments, nonBatchVars>>

NextBatch ==
    \/ \E writeRaises \in BOOLEAN : EncodeBatch(writeRaises)
    \/ BatchReturn

SpecBatch == InitBatch /\ [][NextBatch]_vars

RECURSIVE ConcatSegments(_)
ConcatSegments(segs) ==
    IF segs = << >> THEN << >> ELSE Head(segs).clips \o ConcatSegments(Tail(segs))

\* C34: a call of batch_encode_clips over N clips with batch size b that
\* returns has produced exactly ceil(N/b) segments, numbered in order, each
\* holding at least one and at most b clips, whose concatenation is the input
\* list (every clip in exactly one segment, input order kept); N = 0 gives no
\* segment.
C34_BatchesPartitionClips ==
    bePc = "returned" =>
        LET n == Len(beInput.clips)
            b == beInput.batch_size
        IN /\ Len(beSegments) = (n + b - 1) \div b
           /\ \A k \in 1..Len(beSegments) :
                 /\ beSegments[k].index = k - 1
                 /\ Len(beSegments[k].clips) \in 1..b
           /\ ConcatSegments(beSegments) = beInput.clips

\* C34 witness: a returned call over more clips than one batch holds, whose
\* last segment is a partial one.
C34_Witness ==
    /\ bePc = "returned"
    /\ Len(beInput.clips) > beInput.batch_size
    /\ beInput.batch_size > 1
    /\ Len(beInput.clips) % beInput.batch_size # 0
    /\ Len(beSegments) >= 2

-----------------------------------------------------------------------------
(* The procedural generators on the pool workers. They draw from the global
   generator of module random (random.seed, random.choice, random.randint),
   which all threads of the process share. *)

NumRandomWorkers == 2
\* Values a generator draws after seeding (stand-in for the hundreds of
\* random.randint / random.choice calls of one background).
NumDraws == 2
\* Stand-in for the state space of the generator.
RngModulus == 8

\* seed = hash(lyric.get("text", "")) % (2**31); random.seed(seed)
SeedOf(text) == (3 * text) % RngModulus

\* One draw: the value returned and the state left behind.
DrawnValue(state) == state
StateAfterDraw(state) == (5 * state + 3) % RngModulus

RECURSIVE DrawsFrom(_, _)
DrawsFrom(state, n) ==
    IF n = 0 THEN << >>
    ELSE <<DrawnValue(state)>> \o DrawsFrom(StateAfterDraw(state), n - 1)

\* What a generator draws for a text when no other thread touches random.
UndisturbedDraws(text) == DrawsFrom(SeedOf(text), NumDraws)

InitRandom ==
    /\ rngState \in 0..(RngModulus - 1)
    /\ rwText \in [1..NumRandomWorkers -> Texts]
    /\ rwPc = [w \in 1..NumRandomWorkers |-> 0]
    /\ rwOut = [w \in 1..NumRandomWorkers |-> << >>]
    /\ entry = "pipeline"
    /\ parallel_processing = FALSE
    /\ lyrics = << >>
    /\ path = "none"
    /\ phase = "start"
    /\ scenes = << >>
    /\ previous_images = << >>
    /\ seqI = 1
    /\ attempt = 0
    /\ seqRaised = {}
    /\ task = << >>
    /\ cache = << >>
    /\ recency = << >>
    /\ lastOp = [op |-> "none", key |-> NoKey, evicted |-> {}, expected |-> {}]
    /\ tpc = [t \in 1..NumThreads |-> "idle"]
    /\ targ = [t \in 1..NumThreads |-> [key |-> NoKey, val |-> 0]]
    /\ keyError = FALSE
    /\ lyric = [text |-> << >>, duration |-> [present |-> FALSE, num |-> 0, den |-> 1]]
    /\ bpm = 0
    /\ called = "none"
    /\ duration = [num |-> 0, den |-> 1]
    /\ now = 0
    /\ cloudinary_available = TRUE
    /\ storage = {}
    /\ pending_deletions = {}
    /\ timers = {}
    /\ sweepDue = SweepPeriod
    /\ jobs = 0
    /\ uploads = {}
    /\ deleted = {}
    /\ outage = FALSE
    /\ lastDelete = [called |-> FALSE, asset_id |-> << >>, alreadyDeleted |-> FALSE,
                     returned |-> FALSE, storageSame |-> TRUE, pendingSame |-> TRUE]
    /\ bgInput = [hf_token |-> FALSE, hf_available |-> FALSE, ai |-> "raises", style |-> {}]
    /\ bgPc = "start"
    /\ bgOutput = "none"
    /\ jobData = [entry |-> "pipeline", has_lyrics |-> FALSE, has_songTitle |-> FALSE,
                  webhook_url |-> FALSE, lyric_count |-> 0, motion_interpolation |-> FALSE]
    /\ jobPc = "start"
    /\ jobScenes = 0
    /\ jobSteps = << >>
    /\ jobFile = "none"
    /\ jobResult = [success |-> FALSE, error |-> "none", secure_url |-> [scheme |-> "none", path |-> << >>, ext |-> "none"],
                    public_id |-> << >>, upload_error |-> FALSE, expires |-> FALSE]
    /\ jobWebhooks = {}
    /\ dInput = [entry |-> "none", tag |-> [prefix |-> "", body |-> "unknown", upper |-> FALSE], style |-> "none"]
    /\ dPc = "start"
    /\ dOutcome = [kind |-> "none", fn |-> "none", seconds10 |-> 0]
    /\ rInput = [style |-> "dreamy_ethereal", durations |-> << >>]
    /\ rPc = "background"
    /\ rBg = [kind |-> "none", palette |-> "none", duration |-> 0]
    /\ rClips = << >>
    /\ swPc = "sleeping"
    /\ swSlept = 0
    /\ swErrors = {}
    /\ swCycles = 0
    /\ mClip = [lib |-> "none", fn |-> "none", duration |-> 0, intensity |-> "low"]
    /\ mSamples = << >>
    /\ suInput = [url |-> [scheme |-> "https", netloc |-> "res.cloudinary.com", path |-> "/v/a.mp4", query |-> << >>],
                  expiry_hours |-> 24, storage_type |-> "cloudinary", time |-> 0]
    /\ suPc = "start"
    /\ suOutput = [scheme |-> "https", netloc |-> "res.cloudinary.com", path |-> "/v/a.mp4", query |-> << >>]
    /\ qCalls = << >>
    /\ plLock = "free"
    /\ plPc = [sweep |-> "sleeping", timer |-> << >>]
    /\ plTable = {}
    /\ plLast = [op |-> "none", thread |-> "none", holder |-> "free"]
    /\ aiService = << >>
    /\ aiPc = << >>
    /\ aiFanIn = "waiting"
    /\ uqInput = [candidate |-> 0, accepted |-> << >>]
    /\ uqPc = "start"
    /\ uqResult = TRUE
    /\ beInput = [clips |-> << >>, batch_size |-> 1]
    /\ beI = 0
    /\ bePc = "loop"
    /\ beSegments = << >>
    /\ irInput = [path |-> "seq", generator |-> "ai", image |-> 0, webp |-> TRUE]
    /\ irPc = "start"
    /\ irRef = << >>
    /\ irClip = [kind |-> "none", image |-> 0]

\* random.seed(seed): in generate_procedural_fallback_background, then again
\* first thing in the generator it calls.
RandomSeed(w) ==
    /\ rwPc[w] \in {0, 1}
    /\ rngState' = SeedOf(rwText[w])
    /\ rwPc' = [rwPc EXCEPT ![w] = rwPc[w] + 1]
    /\ UNCHANGED <<rwText, rwOut, nonRandomVars>>

\* random.choice(...) / random.randint(...) in the generator
RandomDraw(w) ==
    /\ rwPc[w] \in 2..(NumDraws + 1)
    /\ rwOut' = [rwOut EXCEPT ![w] = Append(rwOut[w], DrawnValue(rngState))]
    /\ rngState' = StateAfterDraw(rngState)
    /\ rwPc' = [rwPc EXCEPT ![w] = rwPc[w] + 1]
    /\ UNCHANGED <<rwText, nonRandomVars>>

NextRandom ==
    \/ \E w \in 1..NumRandomWorkers : RandomSeed(w)
    \/ \E w \in 1..NumRandomWorkers : RandomDraw(w)

SpecRandom == InitRandom /\ [][NextRandom]_vars

\* C38: the procedural background of a lyric depends only on its text (and
\* the style family): whatever the interleaving of the workers, a worker that
\* has finished drew the values its text gives when it runs undisturbed.
C38_BackgroundDependsOnTextOnly ==
    \A w \in 1..NumRandomWorkers :
        rwPc[w] = NumDraws + 2 => rwOut[w] = UndisturbedDraws(rwText[w])

-----------------------------------------------------------------------------
(* The image reference of a scene: what generate_styled_background returns,
   what scene generation writes as image_url, what create_background_clip
   decodes. A string is the sequence of its comma-separated fields; a field
   is a data-URI header ("data:image/<mime>;base64") or a base64 payload. *)

NumRefImages == 4

Header(mime) == [kind |-> "header", mime |-> mime, image |-> 0]
Payload(mime, image) == [kind |-> "payload", mime |-> mime, image |-> image]

\* optimized_encode_image: f"data:{mime_type};base64,{img_base64}", WEBP
\* first, PNG when saving as WEBP raises.
optimized_encode_image(image, webp) ==
    LET mime == IF webp THEN "webp" ELSE "png"
    IN <<Header(mime), Payload(mime, image)>>

\* base64.b64encode(buffered.getvalue()).decode(), of a PNG
PlainBase64(image) == <<Payload("png", image)>>

\* What generate_styled_background returns: the AI texture as plain base64,
\* a procedural background as the generators' `return encode_image(img)`.
BackgroundString(generator, image, webp) ==
    IF generator = "ai" THEN PlainBase64(image)
    ELSE optimized_encode_image(image, webp)

\* "image_url": f"data:image/png;base64,{image_base64}"
SceneImageUrl(image_base64) == <<Header("png")>> \o image_base64

InitImageRef ==
    /\ irInput \in [path : {"seq", "par"},
                    generator : {"ai", "dreamy_varied", "minimalist_varied"},
                    image : 0..(NumRefImages - 1),
                    webp : BOOLEAN]
    /\ irPc = "start"
    /\ irRef = << >>
    /\ irClip = [kind |-> "none", image |-> 0]
    /\ entry = "pipeline"
    /\ parallel_processing = FALSE
    /\ lyrics = << >>
    /\ path = "none"
    /\ phase = "start"
    /\ scenes = << >>
    /\ previous_images = << >>
    /\ seqI = 1
    /\ attempt = 0
    /\ seqRaised = {}
    /\ task = << >>
    /\ cache = << >>
    /\ recency = << >>
    /\ lastOp = [op |-> "none", key |-> NoKey, evicted |-> {}, expected |-> {}]
    /\ tpc = [t \in 1..NumThreads |-> "idle"]
    /\ targ = [t \in 1..NumThreads |-> [key |-> NoKey, val |-> 0]]
    /\ keyError = FALSE
    /\ lyric = [text |-> << >>, duration |-> [present |-> FALSE, num |-> 0, den |-> 1]]
    /\ bpm = 0
    /\ called = "none"
    /\ duration = [num |-> 0, den |-> 1]
    /\ now = 0
    /\ cloudinary_available = TRUE
    /\ storage = {}
    /\ pending_deletions = {}
    /\ timers = {}
    /\ sweepDue = SweepPeriod
    /\ jobs = 0
    /\ uploads = {}
    /\ deleted = {}
    /\ outage = FALSE
    /\ lastDelete = [called |-> FALSE, asset_id |-> << >>, alreadyDeleted |-> FALSE,
                     returned |-> FALSE, storageSame |-> TRUE, pendingSame |-> TRUE]
    /\ bgInput = [hf_token |-> FALSE, hf_available |-> FALSE, ai |-> "raises", style |-> {}]
    /\ bgPc = "start"
    /\ bgOutput = "none"
    /\ jobData = [entry |-> "pipeline", has_lyrics |-> FALSE, has_songTitle |-> FALSE,
                  webhook_url |-> FALSE, lyric_count |-> 0, motion_interpolation |-> FALSE]
    /\ jobPc = "start"
    /\ jobScenes = 0
    /\ jobSteps = << >>
    /\ jobFile = "none"
    /\ jobResult = [success |-> FALSE, error |-> "none", secure_url |-> [scheme |-> "none", path |-> << >>, ext |-> "none"],
                    public_id |-> << >>, upload_error |-> FALSE, expires |-> FALSE]
    /\ jobWebhooks = {}
    /\ dInput = [entry |-> "none", tag |-> [prefix |-> "", body |-> "unknown", upper |-> FALSE], style |-> "none"]
    /\ dPc = "start"
    /\ dOutcome = [kind |-> "none", fn |-> "none", seconds10 |-> 0]
    /\ rInput = [style |-> "dreamy_ethereal", durations |-> << >>]
    /\ rPc = "background"
    /\ rBg = [kind |-> "none", palette |-> "none", duration |-> 0]
    /\ rClips = << >>
    /\ swPc = "sleeping"
    /\ swSlept = 0
    /\ swErrors = {}
    /\ swCycles = 0
    /\ mClip = [lib |-> "none", fn |-> "none", duration |-> 0, intensity |-> "low"]
    /\ mSamples = << >>
    /\ suInput = [url |-> [scheme |-> "https", netloc |-> "res.cloudinary.com", path |-> "/v/a.mp4", query |-> << >>],
                  expiry_hours |-> 24, storage_type |-> "cloudinary", time |-> 0]
    /\ suPc = "start"
    /\ suOutput = [scheme |-> "https", netloc |-> "res.cloudinary.com", path |-> "/v/a.mp4", query |-> << >>]
    /\ qCalls = << >>
    /\ plLock = "free"
    /\ plPc = [sweep |-> "sleeping", timer |-> << >>]
    /\ plTable = {}
    /\ plLast = [op |-> "none", thread |-> "none", holder |-> "free"]
    /\ aiService = << >>
    /\ aiPc = << >>
    /\ aiFanIn = "waiting"
    /\ uqInput = [candidate |-> 0, accepted |-> << >>]
    /\ uqPc = "start"
    /\ uqResult = TRUE
    /\ beInput = [clips |-> << >>, batch_size |-> 1]
    /\ beI = 0
    /\ bePc = "loop"
    /\ beSegments = << >>
    /\ rngState = 0
    /\ rwText = << >>
    /\ rwPc = << >>
    /\ rwOut = << >>

GenerateBackgroundString ==
    /\ irPc = "start"
    /\ irRef' = BackgroundString(irInput.generator, irInput.image, irInput.webp)
    /\ irPc' = "generated"
    /\ UNCHANGED <<irInput, irClip, nonImageRefVars>>

\* generate_styled_scenes and process_single_lyric build the scene.
WriteSceneImageUrl ==
    /\ irPc = "generated"
    /\ irRef' = SceneImageUrl(irRef)
    /\ irPc' = "scene"
    /\ UNCHANGED <<irInput, irClip, nonImageRefVars>>

\* create_background_clip: startswith("data:image"), then
\* base64.b64decode(image_url.split(",")[1]) and Image.open. A field that is
\* not the payload of an image decodes to bytes that Image.open rejects (or
\* does not decode at all); the except returns the gradient.
DecodeBackground ==
    /\ irPc = "scene"
    /\ irClip' = IF /\ irRef[1].kind = "header"
                    /\ Len(irRef) >= 2
                    /\ irRef[2].kind = "payload"
                 THEN [kind |-> "image", image |-> irRef[2].image]
                 ELSE [kind |-> "gradient", image |-> 0]
    /\ irPc' = "rendered"
    /\ UNCHANGED <<irInput, irRef, nonImageRefVars>>

NextImageRef ==
    \/ GenerateBackgroundString
    \/ WriteSceneImageUrl
    \/ DecodeBackground

SpecImageRef == InitImageRef /\ [][NextImageRef]_vars

\* C39: the image reference written for a procedurally generated background
\* round-trips through the renderer: create_background_clip decodes it and
\* the clip shows that background, not the gradient.
C39_ProceduralBackgroundRoundTrips ==
    (irPc = "rendered" /\ irInput.generator # "ai")
        => irClip = [kind |-> "image", image |-> irInput.image]

=============================================================================
